---- MODULE Spec2Model ----
(***************************************************************************)
(* State-machine model of the skypydb relational core: the schema planner  *)
(* and schema repository, the relational repository (insert / update /     *)
(* delete / move with runtime foreign-key checks), the function            *)
(* interpreter, the where-clause compiler and the schema signature.        *)
(*                                                                         *)
(* MySQL is modelled as: a set of physical tables, each with a set of      *)
(* declared columns (nullability, optional FOREIGN KEY ... ON DELETE       *)
(* RESTRICT) and a set of rows keyed by _id.  DDL takes effect at once     *)
(* (it is not transactional); DML inside a transaction works on a private  *)
(* copy of the rows that replaces the committed rows on commit and is      *)
(* dropped on rollback.                                                    *)
(***************************************************************************)
EXTENDS Integers, Sequences, FiniteSets, TLC

(***************************************************************************)
(* Bounds of the model.                                                    *)
(***************************************************************************)
\* rows that may exist at once, over all tables
MaxRows == 3

(***************************************************************************)
(* JSON values (serde_json::Value) are tagged records [t, v]; a JSON       *)
(* object is a sequence of <<key, value>> pairs in the map's iteration     *)
(* order.  (The tag t is the first field TLC compares, so values of        *)
(* different kinds are told apart before their contents are looked at.)    *)
(***************************************************************************)
JNull == [t |-> "null", v |-> ""]
JStr(s) == [t |-> "str", v |-> s]
JNum(n) == [t |-> "num", v |-> n]
JBool(b) == [t |-> "bool", v |-> b]
JArr(items) == [t |-> "arr", v |-> items]
JObj(entries) == [t |-> "obj", v |-> entries]

(***************************************************************************)
(* Generic helpers.                                                        *)
(***************************************************************************)
Range(s) == { s[i] : i \in 1..Len(s) }

Min(a, b) == IF a < b THEN a ELSE b

\* the concatenation of a sequence of sequences
RECURSIVE Flatten(_)
Flatten(ss) == IF ss = <<>> THEN <<>> ELSE ss[1] \o Flatten(Tail(ss))

\* all orderings of a finite set, as sequences without repetition
RECURSIVE Perms(_)
Perms(S) ==
    IF S = {} THEN { <<>> }
    ELSE UNION { { <<x>> \o p : p \in Perms(S \ {x}) } : x \in S }

\* A BTreeMap<String, V>: a sequence of <<key, value>> pairs in key order.
MapKeys(m) == [i \in 1..Len(m) |-> m[i][1]]
KeySet(m) == { m[i][1] : i \in 1..Len(m) }
MapHas(m, k) == k \in KeySet(m)
MapGet(m, k) == LET i == CHOOSE j \in 1..Len(m) : m[j][1] = k IN m[i][2]

(***************************************************************************)
(* Identifiers.  Names are strings; the regular expressions of the         *)
(* validators look at their spelling.                                      *)
(***************************************************************************)
Letters ==
    { "a", "b", "c", "d", "e", "f", "g", "h", "i", "j", "k", "l", "m",
      "n", "o", "p", "q", "r", "s", "t", "u", "v", "w", "x", "y", "z",
      "A", "B", "C", "D", "E", "F", "G", "H", "I", "J", "K", "L", "M",
      "N", "O", "P", "Q", "R", "S", "T", "U", "V", "W", "X", "Y", "Z" }
Digits == { "0", "1", "2", "3", "4", "5", "6", "7", "8", "9" }

Spelling ==
    [ users       |-> <<"u", "s", "e", "r", "s">>,
      tasks       |-> <<"t", "a", "s", "k", "s">>,
      done        |-> <<"d", "o", "n", "e">>,
      name        |-> <<"n", "a", "m", "e">>,
      title       |-> <<"t", "i", "t", "l", "e">>,
      user_id     |-> <<"u", "s", "e", "r", "_", "i", "d">>,
      note        |-> <<"n", "o", "t", "e">>,
      score       |-> <<"s", "c", "o", "r", "e">>,
      _id         |-> <<"_", "i", "d">>,
      _created_at |-> <<"_", "c", "r", "e", "a", "t", "e", "d", "_", "a", "t">>,
      _updated_at |-> <<"_", "u", "p", "d", "a", "t", "e", "d", "_", "a", "t">>,
      by_title    |-> <<"b", "y", "_", "t", "i", "t", "l", "e">>,
      tables      |-> <<"t", "a", "b", "l", "e", "s">>,
      migrations  |-> <<"m", "i", "g", "r", "a", "t", "i", "o", "n", "s">>,
      fields      |-> <<"f", "i", "e", "l", "d", "s">>,
      indexes     |-> <<"i", "n", "d", "e", "x", "e", "s">>,
      columns     |-> <<"c", "o", "l", "u", "m", "n", "s">>,
      type        |-> <<"t", "y", "p", "e">>,
      table       |-> <<"t", "a", "b", "l", "e">>,
      shape       |-> <<"s", "h", "a", "p", "e">>,
      inner       |-> <<"i", "n", "n", "e", "r">>,
      from        |-> <<"f", "r", "o", "m">>,
      field_map   |-> <<"f", "i", "e", "l", "d", "_", "m", "a", "p">>,
      defaults    |-> <<"d", "e", "f", "a", "u", "l", "t", "s">>,
      string      |-> <<"s", "t", "r", "i", "n", "g">>,
      id          |-> <<"i", "d">>,
      optional    |-> <<"o", "p", "t", "i", "o", "n", "a", "l">>,
      null        |-> <<"n", "u", "l", "l">>,
      true        |-> <<"t", "r", "u", "e">>,
      false       |-> <<"f", "a", "l", "s", "e">>,
      a           |-> <<"a">>,
      b           |-> <<"b">>,
      x           |-> <<"x">>,
      y           |-> <<"y">> ]
    @@ ("$and" :> <<"$", "a", "n", "d">>)
    @@ ("$or" :> <<"$", "o", "r">>)
    @@ ("$eq" :> <<"$", "e", "q">>)
    @@ ("$ne" :> <<"$", "n", "e">>)
    @@ ("$gt" :> <<"$", "g", "t">>)
    @@ ("$gte" :> <<"$", "g", "t", "e">>)
    @@ ("$lt" :> <<"$", "l", "t">>)
    @@ ("$lte" :> <<"$", "l", "t", "e">>)
    @@ ("$contains" :> <<"$", "c", "o", "n", "t", "a", "i", "n", "s">>)
    @@ ("$in" :> <<"$", "i", "n">>)
    @@ ("$nin" :> <<"$", "n", "i", "n">>)
    @@ ("$regex" :> <<"$", "r", "e", "g", "e", "x">>)
    @@ ("eq" :> <<"e", "q">>)
    @@ ("bad name" :> <<"b", "a", "d", " ", "n", "a", "m", "e">>)
    @@ ("x-y" :> <<"x", "-", "y">>)
    @@ ("1st" :> <<"1", "s", "t">>)
    @@ ("Name" :> <<"N", "a", "m", "e">>)
    @@ ("asc" :> <<"a", "s", "c">>)
    @@ ("desc" :> <<"d", "e", "s", "c">>)
    @@ ("DESC" :> <<"D", "E", "S", "C">>)
    @@ ("Asc" :> <<"A", "s", "c">>)
    @@ ("up" :> <<"u", "p">>)
    @@ ("$arg" :> <<"$", "a", "r", "g">>)
    @@ ("$arg.name" :> <<"$", "a", "r", "g", ".", "n", "a", "m", "e">>)
    @@ ("$arg.id" :> <<"$", "a", "r", "g", ".", "i", "d">>)
    @@ ("$var.t" :> <<"$", "v", "a", "r", ".", "t">>)
    @@ ("$arg.ok" :> <<"$", "a", "r", "g", ".", "o", "k">>)
    @@ ("$var.u" :> <<"$", "v", "a", "r", ".", "u">>)
    @@ ("$var.rows" :> <<"$", "v", "a", "r", ".", "r", "o", "w", "s">>)
    @@ ("$var.__return_value" :>
          <<"$", "v", "a", "r", ".", "_", "_", "r", "e", "t", "u", "r", "n", "_",
            "v", "a", "l", "u", "e">>)
    @@ ("__return_value" :>
          <<"_", "_", "r", "e", "t", "u", "r", "n", "_", "v", "a", "l", "u", "e">>)
    @@ ("$var.nope" :> <<"$", "v", "a", "r", ".", "n", "o", "p", "e">>)
    @@ ("$var.t.title" :> <<"$", "v", "a", "r", ".", "t", ".", "t", "i", "t", "l", "e">>)
    @@ ("ok" :> <<"o", "k">>)
    @@ ("u" :> <<"u">>)
    @@ ("t" :> <<"t">>)
    @@ ("rows" :> <<"r", "o", "w", "s">>)
    @@ ("nope" :> <<"n", "o", "p", "e">>)
    @@ ("'ok'" :> <<"'", "o", "k", "'">>)
    @@ ("'$arg'" :> <<"'", "$", "a", "r", "g", "'">>)
    @@ ("'$arg.name'" :> <<"'", "$", "a", "r", "g", ".", "n", "a", "m", "e", "'">>)
    @@ ("'$var.t'" :> <<"'", "$", "v", "a", "r", ".", "t", "'">>)
    @@ ("'$var.nope'" :> <<"'", "$", "v", "a", "r", ".", "n", "o", "p", "e", "'">>)
    @@ ("r1" :> <<"r", "1">>) @@ ("r2" :> <<"r", "2">>) @@ ("r3" :> <<"r", "3">>)
    @@ ("r4" :> <<"r", "4">>) @@ ("r5" :> <<"r", "5">>) @@ ("r6" :> <<"r", "6">>)
    @@ ("args" :> <<"a", "r", "g", "s">>)
    @@ ("args.name" :> <<"a", "r", "g", "s", ".", "n", "a", "m", "e">>)
    @@ ("args.id" :> <<"a", "r", "g", "s", ".", "i", "d">>)
    @@ ("a.ts" :> <<"a", ".", "t", "s">>)
    @@ ("a/index.ts" :> <<"a", "/", "i", "n", "d", "e", "x", ".", "t", "s">>)
    @@ ("a/b.ts" :> <<"a", "/", "b", ".", "t", "s">>)
    @@ ("a.b.ts" :> <<"a", ".", "b", ".", "t", "s">>)
    @@ ("a.d.ts" :> <<"a", ".", "d", ".", "t", "s">>)
    @@ ("dist/a.ts" :> <<"d", "i", "s", "t", "/", "a", ".", "t", "s">>)
    @@ (".ts" :> <<".", "t", "s">>)
    @@ (".d.ts" :> <<".", "d", ".", "t", "s">>)
    @@ ("/index" :> <<"/", "i", "n", "d", "e", "x">>)
    @@ ("index" :> <<"i", "n", "d", "e", "x">>)
    @@ ("dist" :> <<"d", "i", "s", "t">>)
    @@ ("node_modules" :> <<"n", "o", "d", "e", "_", "m", "o", "d", "u", "l", "e", "s">>)
    @@ (".generated" :> <<".", "g", "e", "n", "e", "r", "a", "t", "e", "d">>)
    @@ ("f" :> <<"f">>)
    @@ ("g" :> <<"g">>)
    @@ ("a.f" :> <<"a", ".", "f">>)
    @@ ("a.g" :> <<"a", ".", "g">>)
    @@ ("a.b" :> <<"a", ".", "b">>)
    @@ ("a.b.f" :> <<"a", ".", "b", ".", "f">>)
    @@ ("a.b.g" :> <<"a", ".", "b", ".", "g">>)
    @@ ("ctx" :> <<"c", "t", "x">>)
    @@ ("" :> <<>>)

Chars(n) == Spelling[n]

\* ^[a-zA-Z][a-zA-Z0-9_]*$
validate_table_name(n) ==
    LET c == Chars(n) IN
    /\ Len(c) >= 1
    /\ c[1] \in Letters
    /\ \A i \in 2..Len(c) : c[i] \in Letters \cup Digits \cup {"_"}

\* an identifier check that accepts every name
validate_identifier_any(n) == TRUE

\* ^[a-zA-Z_][a-zA-Z0-9_]*$
validate_identifier(n) ==
    LET c == Chars(n) IN
    /\ Len(c) >= 1
    /\ c[1] \in Letters \cup {"_"}
    /\ \A i \in 2..Len(c) : c[i] \in Letters \cup Digits \cup {"_"}

\* ^[a-zA-Z][a-zA-Z0-9_]*$
validate_sql_identifier(n) == validate_table_name(n)

(***************************************************************************)
(* Results of an operation: Ok(value) or one kind of AppError.             *)
(***************************************************************************)
Ok(v) == [kind |-> "Ok", msg |-> "", value |-> v]
Err(k, m) == [kind |-> k, msg |-> m, value |-> 0]
IsOk(r) == r.kind = "Ok"

\* Rust's `?`: the value of an Ok result is handed on, an Err is returned
Try(r, K(_)) == IF IsOk(r) THEN K(r.value) ELSE r
\* `?` inside an operation on the view V that returns [res, db]
TryOn(V, r, K(_)) == IF IsOk(r) THEN K(r.value) ELSE [res |-> r, db |-> V]
\* a let binding: x is computed once and handed on
With(x, K(_)) == K(x)

(***************************************************************************)
(* Schema documents (common/src/schema/types.rs).                          *)
(***************************************************************************)
NoInner == [field_type |-> "none"]
StringField == [field_type |-> "string", table |-> "", inner |-> NoInner]
BooleanField == [field_type |-> "boolean", table |-> "", inner |-> NoInner]
IdField(target) == [field_type |-> "id", table |-> target, inner |-> NoInner]
OptionalField(inner) == [field_type |-> "optional", table |-> "", inner |-> inner]

is_optional(def) == def.field_type = "optional"

unwrap_base(def) ==
    IF def.field_type = "optional" /\ def.inner # NoInner THEN def.inner ELSE def

Index(n, columns) == [name |-> n, columns |-> columns]
Table(fields, indexes) == [fields |-> fields, indexes |-> indexes]
Rule(from, field_map, defaults) ==
    [from |-> from, field_map |-> field_map, defaults |-> defaults]
Document(tables, migrations) == [tables |-> tables, migrations |-> migrations]

UsersTable == Table(<< <<"name", StringField>> >>, <<>>)
TasksV1 == Table(<< <<"title", StringField>> >>, <<>>)
TasksV2 ==
    Table(<< <<"title", StringField>>, <<"user_id", IdField("users")>> >>,
          << Index("by_title", <<"title">>) >>)
DoneTable ==
    Table(<< <<"note", OptionalField(StringField)>>,
             <<"title", StringField>>,
             <<"user_id", IdField("users")>> >>, <<>>)

\* Documents that break one of the rules a schema document has to keep: a
\* table name and a field name that are no identifiers, an Id field whose
\* table is not in the document, an Optional without inner and one around
\* an Optional, a field_map key and a defaults key that name no field of the
\* target, a source table with two targets, and two tables that refer to
\* each other.
InvalidDocs ==
    [ Bname |-> Document(<< <<"1st", UsersTable>>, <<"users", UsersTable>> >>, <<>>),
      Bfield |-> Document(<< <<"tasks", TasksV1>>,
                             <<"users", Table(<< <<"name", StringField>>,
                                                 <<"x-y", StringField>> >>, <<>>)>> >>,
                          <<>>),
      Btarget |-> Document(<< <<"tasks", Table(<< <<"title", StringField>>,
                                                  <<"user_id", IdField("done")>> >>, <<>>)>>,
                              <<"users", UsersTable>> >>, <<>>),
      Binner |-> Document(<< <<"tasks", TasksV1>>,
                             <<"users", Table(<< <<"name", OptionalField(NoInner)>> >>,
                                              <<>>)>> >>, <<>>),
      Bnested |-> Document(<< <<"tasks", TasksV1>>,
                              <<"users",
                                Table(<< <<"name", StringField>>,
                                         <<"note", OptionalField(OptionalField(StringField))>> >>,
                                      <<>>)>> >>, <<>>),
      Bmap |-> Document(<< <<"done", DoneTable>>, <<"tasks", TasksV2>>,
                           <<"users", UsersTable>> >>,
                        << <<"done", Rule("tasks", << <<"score", "title">> >>, <<>>)>> >>),
      Bdefaults |-> Document(<< <<"done", DoneTable>>, <<"tasks", TasksV2>>,
                                <<"users", UsersTable>> >>,
                             << <<"done", Rule("tasks", <<>>,
                                               << <<"score", JStr("a")>> >>)>> >>),
      Btwo |-> Document(<< <<"done", DoneTable>>, <<"tasks", TasksV2>>,
                           <<"users", UsersTable>> >>,
                        << <<"done", Rule("tasks", <<>>, <<>>)>>,
                           <<"users", Rule("tasks", <<>>, <<>>)>> >>),
      Bcycle |-> Document(<< <<"tasks", TasksV2>>,
                             <<"users", Table(<< <<"name", StringField>>,
                                                 <<"note", IdField("tasks")>> >>,
                                              <<>>)>> >>, <<>>) ]

\* The schema documents a client may apply.  D2 extends D1 by a field and an
\* index on tasks and by the table done; D3 is D2 with a migration rule; D4
\* is D3 without the table tasks, the source of its rule; D5 extends D1 by an
\* optional field on users.
Docs ==
    [ D1 |-> Document(<< <<"tasks", TasksV1>>, <<"users", UsersTable>> >>, <<>>),
      D2 |-> Document(<< <<"done", DoneTable>>, <<"tasks", TasksV2>>,
                         <<"users", UsersTable>> >>, <<>>),
      D3 |-> Document(<< <<"done", DoneTable>>, <<"tasks", TasksV2>>,
                         <<"users", UsersTable>> >>,
                      << <<"done", Rule("tasks", <<>>, <<>>)>> >>) ]
    @@ InvalidDocs
    @@ [ D4 |-> Document(<< <<"done", DoneTable>>, <<"users", UsersTable>> >>,
                         << <<"done", Rule("tasks", <<>>, <<>>)>> >>),
         D5 |-> Document(<< <<"tasks", TasksV1>>,
                            <<"users", Table(<< <<"name", StringField>>,
                                                <<"note", OptionalField(StringField)>> >>,
                                             <<>>)>> >>, <<>>) ]
DocNames == { "D1", "D2", "D3" }
TableNames == { "users", "tasks", "done" }

(***************************************************************************)
(* The MySQL database.  db[t] is the physical table t: whether it exists,  *)
(* its columns besides _id (each with type, nullability and the table its  *)
(* FOREIGN KEY constraint references, "" when it has none), its indexes    *)
(* and its rows.  A row maps "_id" and every column to an SQL value; all   *)
(* modelled columns hold strings or NULL.  The bookkeeping columns         *)
(* _created_at, _updated_at and _extras are not part of the model.         *)
(***************************************************************************)
Null == "NULL"

IdNames == <<"r1", "r2", "r3", "r4", "r5", "r6">>
RowIds == { IdNames[i] : i \in 1..MaxRows }

EmptyTable == [exists |-> FALSE, cols |-> {}, indexes |-> {}, rows |-> {}]
EmptyDb == [t \in TableNames |-> EmptyTable]

Column(n, type, nullable, fk) ==
    [name |-> n, type |-> type, nullable |-> nullable, fk |-> fk]

ColNames(D, t) == { c.name : c \in D[t].cols }
RowIdsOf(D, t) == { r["_id"] : r \in D[t].rows }
TotalRows(D) ==
    Cardinality(UNION { { <<t, i>> : i \in RowIdsOf(D, t) } : t \in TableNames })

\* some fixed enumeration of a finite set, for loops whose outcome does not
\* depend on the order
RECURSIVE SeqOf(_)
SeqOf(S) == IF S = {} THEN <<>> ELSE LET x == CHOOSE y \in S : TRUE
                                     IN <<x>> \o SeqOf(S \ {x})

\* the declarative FOREIGN KEY of column c accepts value v
FkHolds(D, c, v) ==
    \/ c.fk = ""
    \/ v = Null
    \/ \E r \in D[c.fk].rows : r["_id"] = v

\* Utc::now().naive_utc().to_string(): the instants the server's clock
\* shows, in order (seconds, with the nanoseconds chrono prints)
Instants == << "00", "00.000000400", "00.000000600", "00.000001" >>

\* the texts MySQL reads as a DATETIME
is_datetime(text) == text \in Range(Instants)

\* what a DATETIME(6) column keeps of a bound text (MySQL rounds to the
\* microsecond), as NaiveDateTime::to_string prints it when read back
datetime6(text) ==
    CASE text = "00.000000400" -> "00"
      [] text = "00.000000600" -> "00.000001"
      [] OTHER -> text

\* the columns create_relational_table gives every table besides the
\* declared ones
SystemColumns == {"_id", "_created_at"}

\* INSERT INTO t (DOMAIN vals) VALUES (vals): [res, db].  _created_at is
\* DATETIME(6) NOT NULL DEFAULT CURRENT_TIMESTAMP(6).
SqlInsert(D, t, vals) ==
    LET full == [n \in SystemColumns \cup ColNames(D, t) |->
                    IF n \notin DOMAIN vals
                      THEN IF n = "_created_at" THEN "CURRENT_TIMESTAMP" ELSE Null
                    ELSE IF n = "_created_at" THEN datetime6(vals[n])
                    ELSE vals[n]]
    IN  IF ~D[t].exists
          THEN [res |-> Err("Database", "table does not exist"), db |-> D]
        ELSE IF ~(DOMAIN vals \subseteq SystemColumns \cup ColNames(D, t))
          THEN [res |-> Err("Database", "unknown column"), db |-> D]
        ELSE IF "_created_at" \in DOMAIN vals /\ vals["_created_at"] = Null
          THEN [res |-> Err("Database", "column cannot be null"), db |-> D]
        ELSE IF "_created_at" \in DOMAIN vals /\ ~is_datetime(vals["_created_at"])
          THEN [res |-> Err("Database", "incorrect datetime value"), db |-> D]
        ELSE IF \E c \in D[t].cols : ~c.nullable /\ full[c.name] = Null
          THEN [res |-> Err("Database", "column cannot be null"), db |-> D]
        ELSE IF full["_id"] \in RowIdsOf(D, t)
          THEN [res |-> Err("Database", "duplicate primary key"), db |-> D]
        ELSE IF \E c \in D[t].cols : ~FkHolds(D, c, full[c.name])
          THEN [res |-> Err("Database", "foreign key constraint fails"), db |-> D]
        ELSE [res |-> Ok(1), db |-> [D EXCEPT ![t].rows = @ \cup {full}]]

\* some row of some table references, through a FOREIGN KEY constraint, a
\* row of t whose _id is in ids (ON DELETE RESTRICT)
Referenced(D, t, ids) ==
    \E t2 \in TableNames : \E c \in D[t2].cols :
        /\ c.fk = t
        /\ \E r \in D[t2].rows : r[c.name] \in ids

\* DELETE FROM t WHERE _id IN ids (ids are the rows the WHERE matched)
SqlDelete(D, t, ids) ==
    IF ~D[t].exists
      THEN [res |-> Err("Database", "table does not exist"), db |-> D]
    ELSE IF Referenced(D, t, ids)
      THEN [res |-> Err("Database", "foreign key constraint fails"), db |-> D]
    ELSE [res |-> Ok(Cardinality(ids)),
          db |-> [D EXCEPT ![t].rows = { r \in @ : r["_id"] \notin ids }]]

\* UPDATE t SET assign WHERE _id IN ids
SqlUpdate(D, t, ids, assign) ==
    LET upd(r) == [n \in DOMAIN r |-> IF n \in DOMAIN assign THEN assign[n] ELSE r[n]]
        hit == { r \in D[t].rows : r["_id"] \in ids }
    IN  IF ~D[t].exists
          THEN [res |-> Err("Database", "table does not exist"), db |-> D]
        ELSE IF ~(DOMAIN assign \subseteq ColNames(D, t))
          THEN [res |-> Err("Database", "unknown column"), db |-> D]
        ELSE IF hit # {} /\ \E c \in D[t].cols :
                    c.name \in DOMAIN assign /\ ~c.nullable /\ assign[c.name] = Null
          THEN [res |-> Err("Database", "column cannot be null"), db |-> D]
        ELSE IF hit # {} /\ \E c \in D[t].cols :
                    c.name \in DOMAIN assign /\ ~FkHolds(D, c, assign[c.name])
          THEN [res |-> Err("Database", "foreign key constraint fails"), db |-> D]
        ELSE [res |-> Ok(Cardinality(hit)),
              db |-> [D EXCEPT ![t].rows = (@ \ hit) \cup { upd(r) : r \in hit }]]

\* the first error of a sequence of results, Ok(0) when there is none
FirstErr(rs) ==
    IF \E i \in 1..Len(rs) : ~IsOk(rs[i])
      THEN rs[CHOOSE i \in 1..Len(rs) :
                  ~IsOk(rs[i]) /\ \A j \in 1..(i - 1) : IsOk(rs[j])]
      ELSE Ok(0)

(***************************************************************************)
(* Schema validation (relational/src/domain/schema/planner.rs).            *)
(***************************************************************************)
RECURSIVE validate_field_definition(_, _)
validate_field_definition(def, all_tables) ==
    CASE def.field_type = "id" ->
           IF def.table = ""
             THEN Err("Validation", "id field must include target table")
           ELSE IF ~MapHas(all_tables, def.table)
             THEN Err("Validation", "field references unknown table")
           ELSE Ok(0)
      [] def.field_type = "optional" ->
           IF def.inner = NoInner
             THEN Err("Validation", "optional type requires an inner field definition")
             ELSE validate_field_definition(def.inner, all_tables)
      [] OTHER -> Ok(0)

validate_index(index, table_definition) ==
    IF index.name = ""
      THEN Err("Validation", "index with an empty name")
    ELSE IF index.columns = <<>>
      THEN Err("Validation", "index must include at least one column")
    ELSE IF \E i \in 1..Len(index.columns) :
                ~MapHas(table_definition.fields, index.columns[i])
      THEN Err("Validation", "index references unknown field")
    ELSE Ok(0)

validate_table_definition(table_definition, all_tables) ==
    IF table_definition.fields = <<>>
      THEN Err("Validation", "table must define at least one field")
      ELSE FirstErr(
             [i \in 1..Len(table_definition.fields) |->
                validate_field_definition(table_definition.fields[i][2], all_tables)]
             \o [i \in 1..Len(table_definition.indexes) |->
                validate_index(table_definition.indexes[i], table_definition)])

validate_migration_fields(target_table, rule, schema) ==
    LET table == MapGet(schema.tables, target_table) IN
    IF \E k \in KeySet(rule.field_map) : ~MapHas(table.fields, k)
      THEN Err("Validation", "migration fieldMap references unknown target field")
    ELSE IF \E k \in KeySet(rule.defaults) : ~MapHas(table.fields, k)
      THEN Err("Validation", "migration defaults references unknown target field")
    ELSE Ok(0)

validate_migration_rules(schema) ==
    LET rules == schema.migrations
        one(i) ==
          LET target == rules[i][1]
              rule == rules[i][2]
          IN  IF ~MapHas(schema.tables, target)
                THEN Err("Validation", "migration rule references unknown target table")
              ELSE IF rule.from # "" /\ rule.from = target
                THEN Err("Validation", "migration is invalid (same table)")
              ELSE IF rule.from # "" /\ \E j \in 1..(i - 1) : rules[j][2].from = rule.from
                THEN Err("Validation", "source table cannot map to two targets")
              ELSE validate_migration_fields(target, rule, schema)
    IN  FirstErr([i \in 1..Len(rules) |-> one(i)])

validate_schema_document(schema) ==
    IF schema.tables = <<>>
      THEN Err("Validation", "schema must contain at least one table")
      ELSE LET one(i) ==
                 IF ~validate_table_name(schema.tables[i][1])
                   THEN Err("Validation", "invalid table name")
                   ELSE validate_table_definition(schema.tables[i][2], schema.tables)
               tables == FirstErr([i \in 1..Len(schema.tables) |-> one(i)])
           IN  IF ~IsOk(tables) THEN tables ELSE validate_migration_rules(schema)

(***************************************************************************)
(* Apply order: depth-first over Id references, dependencies first.        *)
(***************************************************************************)
RECURSIVE visit(_, _, _)
RECURSIVE visit_fields(_, _, _, _, _)

\* st = [visiting, visited, ordered, err]
visit(table_name, schema, st) ==
    IF ~IsOk(st.err) \/ table_name \in st.visited THEN st
    ELSE IF table_name \in st.visiting
      THEN [st EXCEPT !.err = Err("Validation", "cyclic foreign-key dependency")]
    ELSE IF ~MapHas(schema.tables, table_name)
      THEN [st EXCEPT !.err = Err("Validation", "referenced table was not found")]
    ELSE LET fields == MapGet(schema.tables, table_name).fields
             st2 == visit_fields(table_name, fields, 1, schema,
                                 [st EXCEPT !.visiting = @ \cup {table_name}])
         IN  IF ~IsOk(st2.err) THEN st2
             ELSE [st2 EXCEPT !.visited = @ \cup {table_name},
                              !.ordered = Append(@, table_name)]

visit_fields(table_name, fields, i, schema, st) ==
    IF i > Len(fields) \/ ~IsOk(st.err) THEN st
    ELSE LET base == unwrap_base(fields[i][2]) IN
         IF base.field_type # "id" \/ base.table = "" \/ base.table = table_name
           THEN visit_fields(table_name, fields, i + 1, schema, st)
           ELSE visit_fields(table_name, fields, i + 1, schema,
                             visit(base.table, schema, st))

RECURSIVE visit_all(_, _, _)
visit_all(schema, i, st) ==
    IF i > Len(schema.tables) THEN st
    ELSE visit_all(schema, i + 1, visit(schema.tables[i][1], schema, st))

\* resolve_table_apply_order as it would be if it kept the document's order
resolve_table_apply_order_as_listed(schema) ==
    Ok([i \in 1..Len(schema.tables) |-> schema.tables[i][1]])

\* Ok(order) or the Validation error of a cycle
resolve_table_apply_order(schema) ==
    LET st == visit_all(schema, 1,
                 [visiting |-> {}, visited |-> {}, ordered |-> <<>>, err |-> Ok(0)])
    IN  IF IsOk(st.err) THEN Ok(st.ordered) ELSE st.err

(***************************************************************************)
(* Conversions between JSON values and SQL values.                         *)
(***************************************************************************)
\* bind_json_value: the SQL value a JSON value is bound as
bind_json_value(v) ==
    CASE v.t = "null" -> Null
      [] v.t = "str" -> v.v
      [] v.t = "num" -> ToString(v.v)
      [] v.t = "bool" -> IF v.v THEN "1" ELSE "0"
      [] OTHER -> "json"

\* a string column read back as Option<String>
column_to_json(v) == IF v = Null THEN JNull ELSE JStr(v)

\* row_to_json_map: every physical column of a row, as a JSON object
row_to_json_map(row) ==
    LET ks == SeqOf(DOMAIN row)
    IN  [i \in 1..Len(ks) |-> <<ks[i], column_to_json(row[ks[i]])>>]

\* map_row_to_target_payload (query_planner.rs): Ok(payload object) or the
\* Validation error of a required target field nothing provides
map_row_to_target_payload(source_row, target_definition, field_map, defaults) ==
    LET fields == target_definition.fields
        key(f) == IF MapHas(field_map, f) THEN MapGet(field_map, f) ELSE f
        provided(i) ==
            \/ MapHas(source_row, key(fields[i][1]))
            \/ MapHas(defaults, fields[i][1])
            \/ is_optional(fields[i][2])
        val(i) ==
            LET f == fields[i][1] IN
            IF MapHas(source_row, key(f)) THEN MapGet(source_row, key(f))
            ELSE IF MapHas(defaults, f) THEN MapGet(defaults, f)
            ELSE JNull
    IN  IF \E i \in 1..Len(fields) : ~provided(i)
          THEN Err("Validation", "cannot map source row: missing required target field")
          ELSE Ok([i \in 1..Len(fields) |-> <<fields[i][1], val(i)>>])

(***************************************************************************)
(* Schema repository: dynamic DDL (relational/src/repositories/            *)
(* schema_repo.rs).  Each operator returns [res, db].                      *)
(***************************************************************************)
\* Ok([type, nullable]) of a field's column, or a Validation error
column_type_sql(field_definition) ==
    LET optional == field_definition.field_type = "optional"
        base == IF optional THEN field_definition.inner ELSE field_definition
    IN  IF optional /\ field_definition.inner = NoInner
          THEN Err("Validation", "optional field requires inner definition")
        ELSE CASE base.field_type = "string" -> Ok([type |-> "TEXT", nullable |-> optional])
               [] base.field_type = "number" -> Ok([type |-> "DOUBLE", nullable |-> optional])
               [] base.field_type = "boolean" -> Ok([type |-> "TINYINT(1)", nullable |-> optional])
               [] base.field_type = "id" -> Ok([type |-> "CHAR(36)", nullable |-> optional])
               [] base.field_type = "object" -> Ok([type |-> "JSON", nullable |-> optional])
               [] OTHER -> Err("Validation", "nested optional field definitions are not supported")

\* the value MySQL gives existing rows for a column added NOT NULL without
\* a DEFAULT (the implicit default of a string type), NULL when nullable
ImplicitDefault(nullable) == IF nullable THEN Null ELSE ""

\* the checks create_relational_table makes on one field before it builds
\* the column: Ok([type, nullable]) or the Validation error
column_sql(field_name, field_definition) ==
    IF ~validate_sql_identifier(field_name)
      THEN Err("Validation", "invalid SQL identifier")
    ELSE Try(column_type_sql(field_definition), LAMBDA ty :
           With(unwrap_base(field_definition), LAMBDA base :
             IF base.field_type = "id" /\ base.table = ""
               THEN Err("Validation", "id field is missing target table")
             ELSE IF base.field_type = "id" /\ ~validate_sql_identifier(base.table)
               THEN Err("Validation", "invalid SQL identifier")
             ELSE Ok(Column(field_name, ty.type, ty.nullable,
                            IF base.field_type = "id" THEN base.table ELSE ""))))

\* CREATE TABLE with the declared columns and a FOREIGN KEY for each id field
create_table_sql(D, table_name, cols) ==
    IF \E c \in cols : c.fk # "" /\ c.fk # table_name /\ ~D[c.fk].exists
      THEN [res |-> Err("Database", "failed to open the referenced table"), db |-> D]
      ELSE [res |-> Ok(0),
            db |-> [D EXCEPT ![table_name] =
                      [exists |-> TRUE, cols |-> cols, indexes |-> {}, rows |-> {}]]]

create_relational_table(D, table_name, definition) ==
    With([i \in 1..Len(definition.fields) |->
            column_sql(definition.fields[i][1], definition.fields[i][2])],
         LAMBDA columns :
           TryOn(D, FirstErr(columns), LAMBDA checked :
             create_table_sql(D, table_name,
                              { columns[i].value : i \in 1..Len(columns) })))

\* ALTER TABLE ... ADD COLUMN for every declared field without a column;
\* the column type is taken from the unwrapped base definition
RECURSIVE ensure_columns(_, _, _, _)
ensure_columns(D, table_name, definition, i) ==
    IF i > Len(definition.fields) THEN [res |-> Ok(0), db |-> D]
    ELSE LET field_name == definition.fields[i][1]
             ty == column_type_sql(unwrap_base(definition.fields[i][2]))
         IN  IF field_name \in ColNames(D, table_name)
               THEN ensure_columns(D, table_name, definition, i + 1)
             ELSE IF ~IsOk(ty) THEN [res |-> ty, db |-> D]
             ELSE LET c == Column(field_name, ty.value.type, ty.value.nullable, "")
                      ext(r) == [n \in DOMAIN r \cup {field_name} |->
                                   IF n = field_name THEN ImplicitDefault(c.nullable)
                                   ELSE r[n]]
                  IN  ensure_columns(
                        [D EXCEPT ![table_name].cols = @ \cup {c},
                                  ![table_name].rows = { ext(r) : r \in @ }],
                        table_name, definition, i + 1)

\* a schema apply that rebuilds the table from the definition
ensure_relational_table_rebuilding(D, table_name, definition) ==
    create_relational_table(D, table_name, definition)

ensure_relational_table(D, table_name, definition) ==
    IF ~validate_sql_identifier(table_name)
      THEN [res |-> Err("Validation", "invalid SQL identifier"), db |-> D]
      ELSE With(IF D[table_name].exists THEN [res |-> Ok(0), db |-> D]
                ELSE create_relational_table(D, table_name, definition),
                LAMBDA created :
                  IF ~IsOk(created.res) THEN created
                  ELSE ensure_columns(created.db, table_name, definition, 1))

\* Ok(0) when the field can be indexed
index_column_sql(field_definition) ==
    LET base == unwrap_base(field_definition) IN
    CASE base.field_type = "object" ->
           Err("Validation", "object field cannot be directly indexed")
      [] base.field_type = "optional" ->
           Err("Validation", "unresolved optional type for index creation")
      [] OTHER -> Ok(0)

RECURSIVE ensure_indexes(_, _, _, _)
ensure_indexes(D, table_name, definition, i) ==
    IF ~validate_sql_identifier(table_name)
      THEN [res |-> Err("Validation", "invalid SQL identifier"), db |-> D]
    ELSE IF i > Len(definition.indexes) THEN [res |-> Ok(0), db |-> D]
    ELSE LET index == definition.indexes[i]
             cols == index.columns
             colres(j) ==
               IF ~MapHas(definition.fields, cols[j])
                 THEN Err("Validation", "index references unknown field")
                 ELSE index_column_sql(MapGet(definition.fields, cols[j]))
             checked == FirstErr([j \in 1..Len(cols) |-> colres(j)])
         IN  IF ~validate_sql_identifier(index.name)
               THEN [res |-> Err("Validation", "invalid SQL identifier"), db |-> D]
             ELSE IF index.name \in D[table_name].indexes
               THEN ensure_indexes(D, table_name, definition, i + 1)
             ELSE IF ~IsOk(checked) THEN [res |-> checked, db |-> D]
             ELSE IF ~D[table_name].exists \/ ~(Range(cols) \subseteq ColNames(D, table_name))
               THEN [res |-> Err("Database", "key column does not exist"), db |-> D]
             ELSE ensure_indexes([D EXCEPT ![table_name].indexes = @ \cup {index.name}],
                                 table_name, definition, i + 1)

\* insert_migrated_row: the payload's keys are the column list
insert_migrated_row(D, table_name, payload) ==
    SqlInsert(D, table_name, [k \in KeySet(payload) |-> bind_json_value(MapGet(payload, k))])

\* the body of the loop of migrate_rows_to_table for one fetched row;
\* row_to_json_map reads every column, so source_map has _created_at
migrate_row(T, source_map, target_table, target_definition, rule) ==
    TryOn(T, map_row_to_target_payload(source_map, target_definition,
                                       rule.field_map, rule.defaults),
          LAMBDA mapped :
            insert_migrated_row(T, target_table,
                                mapped \o << <<"_id", MapGet(source_map, "_id")>>,
                                             <<"_created_at",
                                               MapGet(source_map, "_created_at")>> >>))

\* the loop of migrate_rows_to_table over the fetched rows, in a transaction T
RECURSIVE migrate_loop(_, _, _, _, _, _)
migrate_loop(T, rows, i, target_table, target_definition, rule) ==
    IF i > Len(rows) THEN [res |-> Ok(Len(rows)), db |-> T]
    ELSE With(migrate_row(T, row_to_json_map(rows[i]), target_table,
                          target_definition, rule),
              LAMBDA ins :
                IF ~IsOk(ins.res) THEN ins
                ELSE migrate_loop(ins.db, rows, i + 1, target_table,
                                  target_definition, rule))

\* Every error leaves the transaction uncommitted: the rows are as before.
migrate_rows_to_table(D, source_table, target_table, target_definition, rule) ==
    IF ~validate_sql_identifier(source_table) \/ ~validate_sql_identifier(target_table)
      THEN [res |-> Err("Validation", "invalid SQL identifier"), db |-> D]
    ELSE IF ~D[source_table].exists \/ ~D[target_table].exists \/ D[source_table].rows = {}
      THEN [res |-> Ok(0), db |-> D]
    ELSE With(migrate_loop(D, SeqOf(D[source_table].rows), 1,
                           target_table, target_definition, rule),
              LAMBDA done : IF IsOk(done.res) THEN done
                            ELSE [res |-> done.res, db |-> D])

(***************************************************************************)
(* Schema signature (common/src/schema/signature.rs).  Text is a sequence  *)
(* of one-character strings.                                               *)
(***************************************************************************)
\* the characters the serialized documents are made of, in byte order
AsciiOrder ==
    << "\"", ",", "-", ".", "/", "0", "1", "2", "3", "4", "5", "6", "7", "8", "9", ":",
       "[", "\\", "]", "_",
       "a", "b", "c", "d", "e", "f", "g", "h", "i", "j", "k", "l", "m",
       "n", "o", "p", "q", "r", "s", "t", "u", "v", "w", "x", "y", "z",
       "{", "}" >>
Code == [c \in Range(AsciiOrder) |->
            CHOOSE i \in 1..Len(AsciiOrder) : AsciiOrder[i] = c]

\* a < b for Strings: byte-wise lexicographic
RECURSIVE StrLess(_, _, _)
StrLess(a, b, i) ==
    IF i > Len(a) THEN i <= Len(b)
    ELSE IF i > Len(b) THEN FALSE
    ELSE IF a[i] = b[i] THEN StrLess(a, b, i + 1)
    ELSE Code[a[i]] < Code[b[i]]

\* BTreeMap::insert: the entry takes its place in key order, an entry with
\* the same key is replaced
RECURSIVE btree_insert(_, _, _)
btree_insert(map, key, value) ==
    IF map = <<>> THEN << <<key, value>> >>
    ELSE IF map[1][1] = key THEN << <<key, value>> >> \o Tail(map)
    ELSE IF StrLess(Chars(key), Chars(map[1][1]), 1) THEN << <<key, value>> >> \o map
    ELSE <<map[1]>> \o btree_insert(Tail(map), key, value)

\* the BTreeMap that results from inserting the entries one after another
RECURSIVE BTreeFrom(_)
BTreeFrom(entries) ==
    IF entries = <<>> THEN <<>>
    ELSE btree_insert(BTreeFrom(SubSeq(entries, 1, Len(entries) - 1)),
                      entries[Len(entries)][1], entries[Len(entries)][2])

\* serde_json::Map built by inserting the entries one after another: with the
\* crate feature preserve_order it keeps insertion order, without it it is a
\* BTreeMap.  The manifests that would select the feature are not part of
\* the sources, so both builds are modelled.
JsonMapFrom(preserve_order, entries) ==
    IF preserve_order THEN entries ELSE BTreeFrom(entries)

\* a Value all of whose objects are rebuilt as maps of the build
RECURSIVE rebuild_value(_, _)
rebuild_value(preserve_order, value) ==
    CASE value.t = "obj" ->
           JObj(JsonMapFrom(preserve_order,
                            [i \in 1..Len(value.v) |->
                               <<value.v[i][1], rebuild_value(preserve_order, value.v[i][2])>>]))
      [] value.t = "arr" ->
           JArr([i \in 1..Len(value.v) |-> rebuild_value(preserve_order, value.v[i])])
      [] OTHER -> value

\* Vec<String>::sort
RECURSIVE InsertSorted(_, _)
InsertSorted(sorted, e) ==
    IF sorted = <<>> THEN <<e>>
    ELSE IF StrLess(e, sorted[1], 1) THEN <<e>> \o sorted
    ELSE <<sorted[1]>> \o InsertSorted(Tail(sorted), e)

RECURSIVE SortStrings(_)
SortStrings(v) ==
    IF v = <<>> THEN <<>>
    ELSE InsertSorted(SortStrings(SubSeq(v, 1, Len(v) - 1)), v[Len(v)])

\* [String]::join
RECURSIVE Join(_, _)
Join(parts, sep) ==
    IF parts = <<>> THEN <<>>
    ELSE IF Len(parts) = 1 THEN parts[1]
    ELSE parts[1] \o sep \o Join(Tail(parts), sep)

\* decimal digits of a natural number
RECURSIVE NatText(_)
NatText(n) ==
    LET d == <<"0", "1", "2", "3", "4", "5", "6", "7", "8", "9">>[(n % 10) + 1]
    IN  IF n < 10 THEN <<d>> ELSE NatText(n \div 10) \o <<d>>

\* a JSON string literal: quotes, with quote and backslash escaped
RECURSIVE Escaped(_)
Escaped(chars) ==
    IF chars = <<>> THEN <<>>
    ELSE (IF chars[1] \in {"\"", "\\"} THEN <<"\\", chars[1]>> ELSE <<chars[1]>>)
         \o Escaped(Tail(chars))
Quoted(chars) == <<"\"">> \o Escaped(chars) \o <<"\"">>

\* serde_json::to_string of a scalar
scalar_to_string(value) ==
    CASE value.t = "null" -> Chars("null")
      [] value.t = "bool" -> IF value.v THEN Chars("true") ELSE Chars("false")
      [] value.t = "num" -> NatText(value.v)
      [] OTHER -> Quoted(Chars(value.v))

\* serde_json::to_string: entries in the order the map iterates them
RECURSIVE to_string(_)
to_string(value) ==
    CASE value.t = "obj" ->
           <<"{">> \o Join([i \in 1..Len(value.v) |->
                              Quoted(Chars(value.v[i][1])) \o <<":">>
                                \o to_string(value.v[i][2])], <<",">>) \o <<"}">>
      [] value.t = "arr" ->
           <<"[">> \o Join([i \in 1..Len(value.v) |-> to_string(value.v[i])], <<",">>)
             \o <<"]">>
      [] OTHER -> scalar_to_string(value)

\* a canonical form that keeps the entries of an object in map order
RECURSIVE canonicalize_value_unsorted(_)
canonicalize_value_unsorted(value) ==
    CASE value.t = "obj" ->
           <<"{">> \o Join([i \in 1..Len(value.v) |->
                              <<"\"">> \o Chars(value.v[i][1]) \o <<"\"", ":">>
                                \o canonicalize_value_unsorted(value.v[i][2])], <<",">>)
             \o <<"}">>
      [] value.t = "arr" ->
           <<"[">> \o Join([i \in 1..Len(value.v) |->
                              canonicalize_value_unsorted(value.v[i])], <<",">>) \o <<"]">>
      [] OTHER -> scalar_to_string(value)

\* canonicalize_value: objects as their sorted "key":canonical entries,
\* arrays in order, scalars as serde_json writes them
RECURSIVE canonicalize_value(_)
canonicalize_value(value) ==
    CASE value.t = "obj" ->
           LET ordered_entries ==
                 SortStrings([i \in 1..Len(value.v) |->
                                <<"\"">> \o Chars(value.v[i][1]) \o <<"\"", ":">>
                                  \o canonicalize_value(value.v[i][2])])
           IN  <<"{">> \o Join(ordered_entries, <<",">>) \o <<"}">>
      [] value.t = "arr" ->
           <<"[">> \o Join([i \in 1..Len(value.v) |-> canonicalize_value(value.v[i])],
                           <<",">>) \o <<"]">>
      [] OTHER -> scalar_to_string(value)

\* Serialize for the schema types (serde derive): struct fields in
\* declaration order, maps in their iteration order
RECURSIVE field_to_value(_)
field_to_value(def) ==
    JObj(<< <<"type", JStr(def.field_type)>>,
            <<"table", IF def.table = "" THEN JNull ELSE JStr(def.table)>>,
            <<"shape", JObj(<<>>)>>,
            <<"inner", IF def.inner = NoInner THEN JNull
                       ELSE field_to_value(def.inner)>> >>)

index_to_value(index) ==
    JObj(<< <<"name", JStr(index.name)>>,
            <<"columns", JArr([i \in 1..Len(index.columns) |-> JStr(index.columns[i])])>> >>)

table_to_value(table) ==
    JObj(<< <<"fields", JObj([i \in 1..Len(table.fields) |->
                               <<table.fields[i][1], field_to_value(table.fields[i][2])>>])>>,
            <<"indexes", JArr([i \in 1..Len(table.indexes) |->
                                index_to_value(table.indexes[i])])>> >>)

rule_to_value(rule) ==
    JObj(<< <<"from", IF rule.from = "" THEN JNull ELSE JStr(rule.from)>>,
            <<"field_map", JObj([i \in 1..Len(rule.field_map) |->
                                  <<rule.field_map[i][1], JStr(rule.field_map[i][2])>>])>>,
            <<"defaults", JObj(rule.defaults)>> >>)

\* Serialize for SchemaDocument: the struct fields in declaration order
schema_to_value(schema) ==
    JObj(<< <<"tables", JObj([i \in 1..Len(schema.tables) |->
                               <<schema.tables[i][1], table_to_value(schema.tables[i][2])>>])>>,
            <<"migrations",
              JObj(<< <<"tables", JObj([i \in 1..Len(schema.migrations) |->
                                         <<schema.migrations[i][1],
                                           rule_to_value(schema.migrations[i][2])>>])>> >>)>> >>)

\* serde_json::to_value(schema): the serialized entries collected into the
\* maps of the build
to_value(preserve_order, schema) == rebuild_value(preserve_order, schema_to_value(schema))

\* canonical_schema_json, in the build with or without preserve_order
canonical_schema_json(preserve_order, schema) ==
    canonicalize_value(to_value(preserve_order, schema))

\* Stand-in for std's DefaultHasher (SipHash-1-3 with fixed keys): a 64-bit
\* value, held as four 16-bit limbs, that is a function of the hashed text
\* alone (every character weighted by its position).  Only that property
\* of the hasher is used.
RECURSIVE hash_range(_, _, _, _)
hash_range(text, k, lo, hi) ==
    IF lo > hi THEN 0
    ELSE IF lo = hi THEN (Code[text[lo]] * (((lo * k) % 251) + 1)) % 65536
    ELSE LET mid == (lo + hi) \div 2
         IN  (hash_range(text, k, lo, mid) + hash_range(text, k, mid + 1, hi)) % 65536
DefaultHasher(text) == [k \in 1..4 |-> hash_range(text, k, 1, Len(text))]

HexDigits ==
    <<"0", "1", "2", "3", "4", "5", "6", "7", "8", "9", "a", "b", "c", "d", "e", "f">>

\* the hexadecimal digits of a 64-bit value, without leading zeros
RECURSIVE StripZeros(_)
StripZeros(digits) ==
    IF Len(digits) > 1 /\ digits[1] = "0" THEN StripZeros(Tail(digits)) ELSE digits
LowerHex(h) ==
    LET limb(n) == << HexDigits[(n \div 4096) + 1], HexDigits[((n \div 256) % 16) + 1],
                      HexDigits[((n \div 16) % 16) + 1], HexDigits[(n % 16) + 1] >>
    IN  StripZeros(limb(h[1]) \o limb(h[2]) \o limb(h[3]) \o limb(h[4]))

\* format!("{:0w$x}"): left-padded with zeros to width w
RECURSIVE PadZeros(_, _)
PadZeros(digits, w) == IF Len(digits) >= w THEN digits ELSE PadZeros(<<"0">> \o digits, w)

schema_signature(preserve_order, schema) ==
    PadZeros(LowerHex(DefaultHasher(canonical_schema_json(preserve_order, schema))), 16)

table_signature(table) ==
    PadZeros(LowerHex(DefaultHasher(to_string(table_to_value(table)))), 16)

table_signatures(schema) ==
    [i \in 1..Len(schema.tables) |->
       <<schema.tables[i][1], table_signature(schema.tables[i][2])>>]

\* the signatures of the documents of the model, computed once; the two
\* builds give the same signature (SignatureSameInBothBuilds below)
DocSignature == [d \in DOMAIN Docs |-> schema_signature(TRUE, Docs[d])]
DocTableSignatures == [d \in DOMAIN Docs |-> table_signatures(Docs[d])]

(***************************************************************************)
(* Schema state: _skypydb_schema_state holds the active document (by its   *)
(* name in Docs, "none" before the first apply) and its signature;         *)
(* _skypydb_schema_meta holds one record per table ever managed.  The      *)
(* state carries the server's configuration as well: max_query_limit, the  *)
(* cap the repositories of the server are constructed with, and now, the   *)
(* instant the server's clock shows.                                       *)
(***************************************************************************)
\* the configured cap SKYPYDB_QUERY_MAX_LIMIT (its default)
max_query_limit == 500

NoSchemaState ==
    [active_schema |-> "none", active_schema_signature |-> <<>>,
     max_query_limit |-> max_query_limit, now |-> Instants[1]]
NoMeta == [t \in TableNames |-> [present |-> FALSE, signature |-> <<>>, managed |-> FALSE]]

\* get_active_schema().unwrap_or_default()
get_active_schema(state) ==
    IF state.active_schema = "none" THEN Document(<<>>, <<>>)
    ELSE Docs[state.active_schema]

set_active_schema(state, d, signature) ==
    [state EXCEPT !.active_schema = d, !.active_schema_signature = signature]

upsert_table_meta(meta, table_name, signature, managed) ==
    [meta EXCEPT ![table_name] =
        [present |-> TRUE, signature |-> signature, managed |-> managed]]

\* mark_table_unmanaged as it would be if it left the row alone
mark_table_unmanaged_never(meta, table_name) == meta

mark_table_unmanaged(meta, table_name) ==
    [meta EXCEPT ![table_name] =
        IF @.present THEN [@ EXCEPT !.managed = FALSE]
        ELSE [present |-> TRUE, signature |-> <<>>, managed |-> FALSE]]

\* whether the document has a migration rule for the table that names
\* another table as its source
has_rule(schema, table_name) ==
    /\ MapHas(schema.migrations, table_name)
    /\ MapGet(schema.migrations, table_name).from # ""
    /\ MapGet(schema.migrations, table_name).from # table_name

\* ensure_relational_table, ensure_indexes and the migration of one table
apply_table_steps(D, table_name, table_definition, schema) ==
    With(ensure_relational_table(D, table_name, table_definition), LAMBDA ensured :
      IF ~IsOk(ensured.res) THEN ensured
      ELSE With(ensure_indexes(ensured.db, table_name, table_definition, 1),
                LAMBDA indexed :
                  IF ~IsOk(indexed.res) THEN indexed
                  ELSE IF ~has_rule(schema, table_name) THEN indexed
                  ELSE migrate_rows_to_table(indexed.db,
                         MapGet(schema.migrations, table_name).from, table_name,
                         table_definition, MapGet(schema.migrations, table_name))))

\* the body of apply_schema's loop for one table: cx = [res, db, meta,
\* managed_tables, migrated_tables]
apply_table(cx, table_name, schema, per_table_signatures) ==
    With(apply_table_steps(cx.db, table_name, MapGet(schema.tables, table_name), schema),
         LAMBDA done :
           IF ~IsOk(done.res) THEN [cx EXCEPT !.res = done.res, !.db = done.db]
           ELSE [res |-> Ok(0),
                 db |-> done.db,
                 meta |-> upsert_table_meta(cx.meta, table_name,
                            MapGet(per_table_signatures, table_name), TRUE),
                 managed_tables |-> Append(cx.managed_tables, table_name),
                 migrated_tables |-> IF has_rule(schema, table_name)
                                       THEN Append(cx.migrated_tables, table_name)
                                       ELSE cx.migrated_tables])

RECURSIVE apply_tables(_, _, _, _, _)
apply_tables(cx, apply_order, i, schema, per_table_signatures) ==
    IF i > Len(apply_order) \/ ~IsOk(cx.res) THEN cx
    ELSE apply_tables(apply_table(cx, apply_order[i], schema, per_table_signatures),
                      apply_order, i + 1, schema, per_table_signatures)

RECURSIVE mark_all_unmanaged(_, _)
mark_all_unmanaged(meta, removed) ==
    IF removed = {} THEN meta
    ELSE LET t == CHOOSE x \in removed : TRUE
         IN  mark_all_unmanaged(mark_table_unmanaged(meta, t), removed \ {t})

\* apply_schema of document d: [res, db, state, meta].  An error leaves
\* everything done before it in place (DDL and the per-table steps are not
\* undone).
apply_schema(D, state, meta, d) ==
    With(validate_schema_document(Docs[d]), LAMBDA valid :
      IF ~IsOk(valid) THEN [res |-> valid, db |-> D, state |-> state, meta |-> meta]
      ELSE
    With(resolve_table_apply_order(Docs[d]), LAMBDA order :
      IF ~IsOk(order) THEN [res |-> order, db |-> D, state |-> state, meta |-> meta]
      ELSE
    With(apply_tables([res |-> Ok(0), db |-> D, meta |-> meta,
                       managed_tables |-> <<>>, migrated_tables |-> <<>>],
                      order.value, 1, Docs[d], DocTableSignatures[d]),
         LAMBDA cx :
      IF ~IsOk(cx.res)
        THEN [res |-> cx.res, db |-> cx.db, state |-> state, meta |-> cx.meta]
      ELSE
    With(KeySet(get_active_schema(state).tables) \ KeySet(Docs[d].tables),
         LAMBDA unmanaged :
           [res |-> Ok([managed_tables |-> cx.managed_tables,
                        migrated_tables |-> cx.migrated_tables,
                        unmanaged_tables |-> unmanaged,
                        schema_signature |-> DocSignature[d]]),
            db |-> cx.db,
            state |-> set_active_schema(state, d, DocSignature[d]),
            meta |-> mark_all_unmanaged(cx.meta, unmanaged)]))))

(***************************************************************************)
(* Where-clause and order-by compilers (relational/src/domain/relational). *)
(* An SQL fragment is a sequence of tokens: Col(n) is the quoted column    *)
(* `n`, Sym(s) a piece of fixed SQL text, Placeholder the bind marker "?". *)
(* A bind parameter is a SqlParam; the text of a String parameter is a     *)
(* sequence of parts ("%" parts around the operand of $contains).          *)
(***************************************************************************)
Col(n) == [k |-> "col", v |-> n]
Sym(text) == [k |-> "sym", v |-> text]
Placeholder == Sym("?")

SqlString(parts) == [t |-> "String", v |-> parts]
SqlNumber(n) == [t |-> "Number", v |-> n]
SqlBool(b) == [t |-> "Bool", v |-> b]

value_to_param(value) ==
    CASE value.t = "str" -> Ok(SqlString(<<value.v>>))
      [] value.t = "num" -> Ok(SqlNumber(value.v))
      [] value.t = "bool" -> Ok(SqlBool(value.v))
      [] OTHER -> Err("Validation", "where values must be string, number, or boolean")

number_param(value) ==
    IF value.t = "num" THEN Ok(SqlNumber(value.v))
    ELSE Err("Validation", "comparison operator expects a number")

\* the result of compiling: Ok([sql, params])
Compiled(sql, params) == Ok([sql |-> sql, params |-> params])

\* a comparison that emits its placeholder and binds nothing
compare_sql_unbound(field_name, op, param) ==
    IF IsOk(param) THEN Compiled(<<Col(field_name), Sym(op), Placeholder>>, <<>>)
    ELSE param

\* one comparison with a single bound operand
compare_sql(field_name, op, param) ==
    IF IsOk(param) THEN Compiled(<<Col(field_name), Sym(op), Placeholder>>, <<param.value>>)
    ELSE param

compile_operator(field_name, operator, operand) ==
    CASE operator = "$eq" ->
           IF operand.t = "null" THEN Compiled(<<Col(field_name), Sym("IS NULL")>>, <<>>)
           ELSE compare_sql(field_name, "=", value_to_param(operand))
      [] operator = "$ne" ->
           IF operand.t = "null" THEN Compiled(<<Col(field_name), Sym("IS NOT NULL")>>, <<>>)
           ELSE compare_sql(field_name, "<>", value_to_param(operand))
      [] operator = "$gt" -> compare_sql(field_name, ">", number_param(operand))
      [] operator = "$gte" -> compare_sql(field_name, ">=", number_param(operand))
      [] operator = "$lt" -> compare_sql(field_name, "<", number_param(operand))
      [] operator = "$lte" -> compare_sql(field_name, "<=", number_param(operand))
      [] operator = "$contains" ->
           IF operand.t # "str" THEN Err("Validation", "$contains expects a string")
           ELSE Compiled(<<Col(field_name), Sym("LIKE"), Placeholder>>,
                         <<SqlString(<<"%", operand.v, "%">>)>>)
      [] operator \in {"$in", "$nin"} ->
           IF operand.t # "arr" THEN Err("Validation", "operator expects an array")
           ELSE IF operand.v = <<>> THEN Err("Validation", "operator cannot be empty")
           ELSE LET items == [i \in 1..Len(operand.v) |-> value_to_param(operand.v[i])]
                    placeholders == Join([i \in 1..Len(items) |-> <<Placeholder>>],
                                         <<Sym(",")>>)
                IN  IF ~IsOk(FirstErr(items)) THEN FirstErr(items)
                    ELSE Compiled(<<Col(field_name),
                                    Sym(IF operator = "$in" THEN "IN" ELSE "NOT IN"),
                                    Sym("(")>> \o placeholders \o <<Sym(")")>>,
                                  [i \in 1..Len(items) |-> items[i].value])
      [] OTHER -> Err("Validation", "unsupported where operator")

\* str::starts_with('$')
starts_with_dollar(text) == Len(Chars(text)) >= 1 /\ Chars(text)[1] = "$"

\* the pieces of every (operator, operand) entry of ops_map, in order: acc
\* = [res, pieces, params]
RECURSIVE compile_operators(_, _, _, _)
compile_operators(field_name, ops_map, i, acc) ==
    IF i > Len(ops_map) \/ ~IsOk(acc.res) THEN acc
    ELSE compile_operators(field_name, ops_map, i + 1,
           With(compile_operator(field_name, ops_map[i][1], ops_map[i][2]),
                LAMBDA one :
                  IF ~IsOk(one) THEN [acc EXCEPT !.res = one]
                  ELSE [acc EXCEPT !.pieces = Append(@, one.value.sql),
                                   !.params = @ \o one.value.params]))

RECURSIVE compile_condition(_, _)
RECURSIVE compile_nested(_, _, _, _)
RECURSIVE compile_entries(_, _, _, _)

\* the entries of a $and / $or array: acc = [res, pieces, params]
compile_nested(nested, i, allowed_fields, acc) ==
    IF i > Len(nested) \/ ~IsOk(acc.res) THEN acc
    ELSE compile_nested(nested, i + 1, allowed_fields,
           With(compile_condition(nested[i], allowed_fields),
                LAMBDA entry :
                  IF ~IsOk(entry) THEN [acc EXCEPT !.res = entry]
                  ELSE [acc EXCEPT
                          !.pieces = Append(@, <<Sym("(")>> \o entry.value.sql
                                                \o <<Sym(")")>>),
                          !.params = @ \o entry.value.params]))

\* one entry (key, value) of the map of compile_condition, added to acc
compile_entry(key, value, allowed_fields, acc) ==
    LET fail(m) == [acc EXCEPT !.res = Err("Validation", m)] IN
    IF key \in {"$and", "$or"} THEN
      IF value.t # "arr" THEN fail("$and / $or must be an array")
      ELSE IF value.v = <<>> THEN fail("$and / $or cannot be empty")
      ELSE With(compile_nested(value.v, 1, allowed_fields,
                               [res |-> Ok(0), pieces |-> <<>>, params |-> acc.params]),
                LAMBDA sub :
                  IF ~IsOk(sub.res) THEN [acc EXCEPT !.res = sub.res]
                  ELSE [acc EXCEPT
                          !.pieces = Append(@, <<Sym("(")>>
                                       \o Join(sub.pieces,
                                               <<Sym(IF key = "$and" THEN "AND" ELSE "OR")>>)
                                       \o <<Sym(")")>>),
                          !.params = sub.params])
    ELSE IF key \notin allowed_fields THEN fail("unknown filter field")
    ELSE IF ~validate_identifier(key) THEN fail("invalid identifier")
    ELSE IF value.t = "obj" /\ \E j \in 1..Len(value.v) : starts_with_dollar(value.v[j][1])
      THEN compile_operators(key, value.v, 1, acc)
    ELSE IF value.t = "null"
      THEN [acc EXCEPT !.pieces = Append(@, <<Col(key), Sym("IS NULL")>>)]
    ELSE With(value_to_param(value),
              LAMBDA param :
                IF ~IsOk(param) THEN [acc EXCEPT !.res = param]
                ELSE [acc EXCEPT
                        !.pieces = Append(@, <<Col(key), Sym("="), Placeholder>>),
                        !.params = Append(@, param.value)])

\* the loop of compile_condition over the entries of the map
compile_entries(map, i, allowed_fields, acc) ==
    IF i > Len(map) \/ ~IsOk(acc.res) THEN acc
    ELSE compile_entries(map, i + 1, allowed_fields,
                         compile_entry(map[i][1], map[i][2], allowed_fields, acc))

compile_condition(condition, allowed_fields) ==
    IF condition.t # "obj" THEN Err("Validation", "where clause must be an object")
    ELSE With(compile_entries(condition.v, 1, allowed_fields,
                              [res |-> Ok(0), pieces |-> <<>>, params |-> <<>>]),
              LAMBDA acc :
                IF ~IsOk(acc.res) THEN acc.res
                ELSE IF acc.pieces = <<>>
                  THEN Err("Validation",
                           "where clause must contain at least one condition")
                ELSE Compiled(Join(acc.pieces, <<Sym("AND")>>), acc.params))

\* the absent where clause (Option::None)
NoWhere == [t |-> "none", v |-> ""]
\* CompiledWhere: clause = <<>> stands for None
compile_where_clause(where_clause, allowed_fields) ==
    IF where_clause = NoWhere THEN Ok([clause |-> <<>>, params |-> <<>>, some |-> FALSE])
    ELSE Try(compile_condition(where_clause, allowed_fields),
             LAMBDA c : Ok([clause |-> c.sql, params |-> c.params, some |-> TRUE]))

\* str::to_ascii_lowercase, on the spelling
UpperCase == <<"A", "B", "C", "D", "E", "F", "G", "H", "I", "J", "K", "L", "M",
               "N", "O", "P", "Q", "R", "S", "T", "U", "V", "W", "X", "Y", "Z">>
LowerCase == <<"a", "b", "c", "d", "e", "f", "g", "h", "i", "j", "k", "l", "m",
               "n", "o", "p", "q", "r", "s", "t", "u", "v", "w", "x", "y", "z">>
to_ascii_lowercase(chars) ==
    [i \in 1..Len(chars) |->
       IF chars[i] \in Range(UpperCase)
         THEN LowerCase[CHOOSE j \in 1..Len(UpperCase) : UpperCase[j] = chars[i]]
         ELSE chars[i]]

\* OrderByClause; direction NoDirection stands for None
NoDirection == "NoDirection"
OrderBy(field, direction) == [field |-> field, direction |-> direction]

\* the body of the loop of compile_order_by for one entry
order_by_part(entry, allowed_fields) ==
    IF entry.field \notin allowed_fields THEN Err("Validation", "unknown orderBy field")
    ELSE IF ~validate_identifier(entry.field) THEN Err("Validation", "invalid identifier")
    ELSE With(to_ascii_lowercase(IF entry.direction = NoDirection THEN Chars("asc")
                                 ELSE Chars(entry.direction)),
              LAMBDA direction :
                IF direction = Chars("asc") THEN Ok(<<Col(entry.field), Sym("ASC")>>)
                ELSE IF direction = Chars("desc") THEN Ok(<<Col(entry.field), Sym("DESC")>>)
                ELSE Err("Validation", "invalid sort direction"))

\* compile_order_by: Ok(<<>>) stands for Ok(None)
compile_order_by(entries, allowed_fields) ==
    IF entries = <<>> THEN Ok(<<>>)
    ELSE With([i \in 1..Len(entries) |-> order_by_part(entries[i], allowed_fields)],
              LAMBDA parts :
                Try(FirstErr(parts), LAMBDA none :
                  Ok(Join([i \in 1..Len(parts) |-> parts[i].value], <<Sym(",")>>))))

\* Clamps the requested limit (<<>> stands for None, <<n>> for Some(n)) to the
\* configured maximum
effective_limit(requested, max_limit, default_limit) ==
    Min(IF requested = <<>> THEN default_limit ELSE requested[1], max_limit)

\* validate_id_where_xor: id and where_clause are NoId / NoWhere when absent
NoId == "NoId"
\* a selector check that lets a call with both selectors through
validate_id_where_any(id, where_clause_present) ==
    IF id # NoId \/ where_clause_present THEN Ok(0)
    ELSE Err("Validation", "exactly one of 'id' or 'where' must be provided")

validate_id_where_xor(id, where_clause_present) ==
    IF id # NoId /\ ~where_clause_present THEN Ok(0)
    ELSE IF id = NoId /\ where_clause_present THEN Ok(0)
    ELSE IF id # NoId
      THEN Err("Validation", "exactly one of 'id' or 'where' must be provided (not both)")
    ELSE Err("Validation", "exactly one of 'id' or 'where' must be provided")

(***************************************************************************)
(* MySQL's evaluation of a compiled WHERE fragment over one row, for the   *)
(* fragments the repository model issues: a conjunction of comparisons     *)
(* `col` = ?, `col` <> ?, `col` IS NULL, `col` IS NOT NULL.                *)
(***************************************************************************)
ParamText(param) == IF param.t = "String" THEN param.v[1] ELSE ToString(param.v)

RECURSIVE SqlWhere(_, _, _, _, _)
SqlWhere(clause, i, params, p, row) ==
    IF i > Len(clause) THEN TRUE
    ELSE IF clause[i] = Sym("AND") THEN SqlWhere(clause, i + 1, params, p, row)
    ELSE LET value == row[clause[i].v]
             op == clause[i + 1].v
         IN  CASE op = "IS NULL" ->
                    value = Null /\ SqlWhere(clause, i + 2, params, p, row)
               [] op = "IS NOT NULL" ->
                    value # Null /\ SqlWhere(clause, i + 2, params, p, row)
               [] op = "=" ->
                    /\ value # Null /\ value = ParamText(params[p])
                    /\ SqlWhere(clause, i + 3, params, p + 1, row)
               [] op = "<>" ->
                    /\ value # Null /\ value # ParamText(params[p])
                    /\ SqlWhere(clause, i + 3, params, p + 1, row)

(***************************************************************************)
(* Relational repository                                                   *)
(* (relational/src/repositories/relational_repo.rs).                       *)
(***************************************************************************)
\* the default limit of query (the literal in the call of effective_limit)
DefaultLimit == 100

active_schema(state) ==
    IF state.active_schema = "none"
      THEN Err("Validation", "no active schema; call /v1/admin/schema/apply first")
      ELSE Ok(Docs[state.active_schema])

schema_table(schema, table_name) ==
    IF MapHas(schema.tables, table_name) THEN Ok(MapGet(schema.tables, table_name))
    ELSE Err("NotFound", "table not found in active schema")

allowed_fields(table_definition) ==
    KeySet(table_definition.fields) \cup {"_id", "_created_at", "_updated_at"}

RECURSIVE validate_field_value(_, _)
validate_field_value(definition, raw_value) ==
    CASE definition.field_type = "optional" ->
           IF raw_value.t = "null" THEN Ok(JNull)
           ELSE IF definition.inner = NoInner
             THEN Err("Validation", "optional field is missing inner definition")
           ELSE validate_field_value(definition.inner, raw_value)
      [] definition.field_type \in {"string", "id"} ->
           IF raw_value.t = "str" THEN Ok(raw_value)
           ELSE Err("Validation", "field must be a string")
      [] definition.field_type = "number" ->
           IF raw_value.t = "num" THEN Ok(raw_value)
           ELSE Err("Validation", "field must be a number")
      [] definition.field_type = "boolean" ->
           IF raw_value.t = "bool" THEN Ok(raw_value)
           ELSE Err("Validation", "field must be a boolean")
      [] OTHER ->
           IF raw_value.t = "obj" THEN Ok(raw_value)
           ELSE Err("Validation", "field must be an object")

SystemKeys == {"_id", "_created_at", "_updated_at", "_extras"}

\* Ok([known_fields, extras]): known_fields holds every declared field
prepare_payload(table_definition, value, full_replace) ==
    LET object == value.v
        fields == table_definition.fields
        given(i) ==
          IF object[i][1] \in SystemKeys \/ ~MapHas(fields, object[i][1]) THEN Ok(0)
          ELSE validate_field_value(MapGet(fields, object[i][1]), object[i][2])
        supplied == KeySet(object) \ SystemKeys
        filled(i) ==
          IF fields[i][1] \in supplied \/ is_optional(fields[i][2]) THEN Ok(0)
          ELSE IF full_replace THEN Err("Validation", "missing required field")
          ELSE Err("Validation", "insert payload missing required field")
        checked == FirstErr([i \in 1..Len(object) |-> given(i)]
                            \o [i \in 1..Len(fields) |-> filled(i)])
        known(i) ==
          IF fields[i][1] \in supplied
            THEN validate_field_value(fields[i][2], MapGet(object, fields[i][1])).value
            ELSE JNull
        extra == { i \in 1..Len(object) :
                     object[i][1] \notin SystemKeys /\ ~MapHas(fields, object[i][1]) }
    IN  IF value.t # "obj" THEN Err("Validation", "value must be an object")
        ELSE IF ~IsOk(checked) THEN checked
        ELSE Ok([known_fields |-> [i \in 1..Len(fields) |-> <<fields[i][1], known(i)>>],
                 extras |-> JObj(SeqOf({ object[i] : i \in extra }))])

\* a write path without the runtime foreign-key check
validate_foreign_keys_skipped(V, table_definition, payload) == Ok(0)

\* validate_foreign_keys, reading the view V (the pool's committed data, or
\* a transaction's data for validate_foreign_keys_in_transaction)
validate_foreign_keys(V, table_definition, payload) ==
    LET fields == table_definition.fields
        one(i) ==
          LET base == unwrap_base(fields[i][2])
              value == MapGet(payload.known_fields, fields[i][1])
          IN  IF base.field_type # "id" \/ base.table = "" THEN Ok(0)
              ELSE IF ~MapHas(payload.known_fields, fields[i][1]) THEN Ok(0)
              ELSE IF value.t = "null" THEN Ok(0)
              ELSE IF value.t # "str" THEN Err("Validation", "field expects string id")
              ELSE IF ~V[base.table].exists
                THEN Err("Database", "table does not exist")
              ELSE IF value.v \notin RowIdsOf(V, base.table)
                THEN Err("Validation", "foreign key constraint failed")
              ELSE Ok(0)
    IN  FirstErr([i \in 1..Len(fields) |-> one(i)])

\* the column values an INSERT or UPDATE binds for the known fields
BoundFields(payload) ==
    [n \in KeySet(payload.known_fields) |->
       bind_json_value(MapGet(payload.known_fields, n))]

\* insert, against the view V: [res, db]; row_id is the generated UUID
insert(V, state, table_name, value, row_id) ==
    IF ~validate_table_name(table_name)
      THEN [res |-> Err("Validation", "invalid table name"), db |-> V]
    ELSE
      TryOn(V, active_schema(state), LAMBDA schema :
      TryOn(V, schema_table(schema, table_name), LAMBDA table_definition :
      TryOn(V, prepare_payload(table_definition, value, FALSE), LAMBDA row_payload :
      TryOn(V, validate_foreign_keys(V, table_definition, row_payload), LAMBDA checked :
      With(SqlInsert(V, table_name,
                     [n \in {"_id"} |-> row_id] @@ [n \in {"_created_at"} |-> state.now]
                       @@ BoundFields(row_payload)),
           LAMBDA done : IF IsOk(done.res) THEN [res |-> Ok(row_id), db |-> done.db]
                         ELSE done)))))

\* the _ids of the rows of table_name an id or where selector matches:
\* Ok(set of _id) or the Validation error of the where clause
Selected(V, table_definition, table_name, id, where_clause) ==
    IF id # NoId THEN Ok({ i \in RowIdsOf(V, table_name) : i = id })
    ELSE Try(compile_where_clause(where_clause, allowed_fields(table_definition)),
             LAMBDA compiled :
               IF ~compiled.some THEN Err("Validation", "where clause cannot be empty")
               ELSE Ok({ r["_id"] : r \in { q \in V[table_name].rows :
                           SqlWhere(compiled.clause, 1, compiled.params, 1, q) } }))

update(V, state, table_name, id, where_clause, value) ==
    IF ~validate_table_name(table_name)
      THEN [res |-> Err("Validation", "invalid table name"), db |-> V]
    ELSE
      TryOn(V, validate_id_where_xor(id, where_clause # NoWhere), LAMBDA xor :
      TryOn(V, active_schema(state), LAMBDA schema :
      TryOn(V, schema_table(schema, table_name), LAMBDA table_definition :
      TryOn(V, prepare_payload(table_definition, value, TRUE), LAMBDA row_payload :
      TryOn(V, validate_foreign_keys(V, table_definition, row_payload), LAMBDA checked :
      TryOn(V, Selected(V, table_definition, table_name, id, where_clause), LAMBDA sel :
        SqlUpdate(V, table_name, sel, BoundFields(row_payload))))))))

delete(V, state, table_name, id, where_clause) ==
    IF ~validate_table_name(table_name)
      THEN [res |-> Err("Validation", "invalid table name"), db |-> V]
    ELSE
      TryOn(V, validate_id_where_xor(id, where_clause # NoWhere), LAMBDA xor :
      TryOn(V, active_schema(state), LAMBDA schema :
      TryOn(V, schema_table(schema, table_name), LAMBDA table_definition :
      TryOn(V, Selected(V, table_definition, table_name, id, where_clause), LAMBDA sel :
        SqlDelete(V, table_name, sel)))))

\* row_to_public_json: _id, _created_at and every declared field, read from
\* the row
row_to_public_json(row, table_definition) ==
    LET fields == table_definition.fields IN
    IF \E i \in 1..Len(fields) : fields[i][1] \notin DOMAIN row
      THEN Err("Database", "no column found for name")
      ELSE Ok(JObj(<< <<"_id", JStr(row["_id"])>>,
                      <<"_created_at", JStr(row["_created_at"])>> >>
                   \o [i \in 1..Len(fields) |->
                         <<fields[i][1], column_to_json(row[fields[i][1]])>>]))

QueryOptions(where_clause, order_by, limit, offset) ==
    [where_clause |-> where_clause, order_by |-> order_by, limit |-> limit,
     offset |-> offset]

\* the rows a SELECT of query yields and their public JSON: Ok(sequence)
fetch_all(scan, compiled_where, limit, offset, table_definition) ==
    LET hits == SelectSeq(scan, LAMBDA r :
                  \/ ~compiled_where.some
                  \/ SqlWhere(compiled_where.clause, 1, compiled_where.params, 1, r))
        page == SubSeq(hits, offset + 1, Min(Len(hits), offset + limit))
        rows == [i \in 1..Len(page) |-> row_to_public_json(page[i], table_definition)]
    IN  IF ~IsOk(FirstErr(rows)) THEN FirstErr(rows)
        ELSE Ok([i \in 1..Len(rows) |-> rows[i].value])

\* query, against the view V.  scan is the order in which MySQL yields the
\* rows of the table when the statement has no ORDER BY (any enumeration of
\* the rows); limit 0 stands for None.  Ok(sequence of public rows).  The
\* requests of this model pass no orderBy, and ORDER BY is not evaluated.
query(V, state, table_name, options, scan) ==
    IF ~validate_table_name(table_name) THEN Err("Validation", "invalid table name")
    ELSE
      Try(active_schema(state), LAMBDA schema :
      Try(schema_table(schema, table_name), LAMBDA table_definition :
      Try(compile_where_clause(options.where_clause, allowed_fields(table_definition)),
          LAMBDA compiled_where :
      Try(compile_order_by(options.order_by, allowed_fields(table_definition)),
          LAMBDA order_by :
        IF ~V[table_name].exists THEN Err("Database", "table does not exist")
        ELSE fetch_all(scan, compiled_where,
                       effective_limit(options.limit, state.max_query_limit, DefaultLimit),
                       options.offset, table_definition)))))

\* first: query with limit 1 and offset 0; Ok(row) or Ok(JNull)
first(V, state, table_name, options, scan) ==
    Try(query(V, state, table_name, [options EXCEPT !.limit = <<1>>, !.offset = 0], scan),
        LAMBDA rows : IF rows = <<>> THEN Ok(JNull) ELSE Ok(rows[Len(rows)]))

\* insert_prepared_row as it would be if it stamped every row with the
\* clock's reading
insert_prepared_row_now(T, table_name, row_id, created_at, payload, now) ==
    IF \E n \in KeySet(payload.known_fields) : ~validate_identifier(n)
      THEN [res |-> Err("Validation", "invalid identifier"), db |-> T]
      ELSE SqlInsert(T, table_name,
                     [n \in {"_id"} |-> row_id] @@ [n \in {"_created_at"} |-> now]
                       @@ BoundFields(payload))

\* insert_prepared_row, inside the transaction T; created_at is <<>> or
\* <<the JSON value to bind>>, now the clock's reading
insert_prepared_row(T, table_name, row_id, created_at, payload, now) ==
    IF \E n \in KeySet(payload.known_fields) : ~validate_identifier(n)
      THEN [res |-> Err("Validation", "invalid identifier"), db |-> T]
      ELSE SqlInsert(T, table_name,
                     [n \in {"_id"} |-> row_id]
                       @@ [n \in {"_created_at"} |->
                             IF created_at = <<>> THEN now
                             ELSE bind_json_value(created_at[1])]
                       @@ BoundFields(payload))

MoveOptions(to_table, id, where_clause, field_map, defaults) ==
    [to_table |-> to_table, id |-> id, where_clause |-> where_clause,
     field_map |-> field_map, defaults |-> defaults]

\* the body of the loop of move_rows for one selected row.  FK is the view
\* the foreign-key check reads, T the transaction: [res, db]
move_row(FK, T, source_map, from_table, options, target_definition, now) ==
    TryOn(T, map_row_to_target_payload(source_map, target_definition,
                                       options.field_map, options.defaults),
          LAMBDA mapped_payload :
    TryOn(T, prepare_payload(target_definition, JObj(mapped_payload), FALSE),
          LAMBDA prepared :
    TryOn(T, validate_foreign_keys(FK, target_definition, prepared), LAMBDA checked :
    With(MapGet(source_map, "_id").v, LAMBDA row_id :
      IF ~T[options.to_table].exists
        THEN [res |-> Err("Database", "table does not exist"), db |-> T]
      ELSE IF row_id \in RowIdsOf(T, options.to_table)
        THEN [res |-> Err("Validation",
                          "cannot move row: target table already contains this _id"),
              db |-> T]
      ELSE With(insert_prepared_row(T, options.to_table, row_id,
                                    IF MapHas(source_map, "_created_at")
                                      THEN << MapGet(source_map, "_created_at") >>
                                      ELSE <<>>,
                                    prepared, now),
                LAMBDA inserted :
                  IF ~IsOk(inserted.res) THEN inserted
                  ELSE SqlDelete(inserted.db, from_table, {row_id}))))))

\* the loop of move_rows over the selected rows: [res, db, moved].  The
\* foreign-key check reads the pool's data FK, or the transaction itself
\* when fk_in_tx (move_rows_in_transaction).
RECURSIVE move_loop(_, _, _, _, _, _, _, _, _)
move_loop(FK, T, selected_rows, i, from_table, options, target_definition, fk_in_tx, now) ==
    IF i > Len(selected_rows) THEN [res |-> Ok(i - 1), db |-> T, moved |-> i - 1]
    ELSE With(move_row(IF fk_in_tx THEN T ELSE FK, T, selected_rows[i].v, from_table,
                       options, target_definition, now),
              LAMBDA done :
                IF ~IsOk(done.res)
                  THEN [res |-> done.res, db |-> done.db, moved |-> i - 1]
                ELSE move_loop(FK, done.db, selected_rows, i + 1, from_table, options,
                               target_definition, fk_in_tx, now))

\* what move_rows and move_rows_in_transaction do before their loop:
\* Ok(selected rows) or the error
move_selection(V, state, from_table, options, scan) ==
    IF ~validate_table_name(from_table) \/ ~validate_table_name(options.to_table)
      THEN Err("Validation", "invalid table name")
    ELSE IF from_table = options.to_table
      THEN Err("Validation", "fromTable and toTable must differ")
    ELSE
      Try(validate_id_where_xor(options.id, options.where_clause # NoWhere), LAMBDA xor :
      Try(active_schema(state), LAMBDA schema :
      Try(schema_table(schema, from_table), LAMBDA source_definition :
      Try(schema_table(schema, options.to_table), LAMBDA target_definition :
      Try(query(V, state, from_table, QueryOptions(options.where_clause, <<>>, <<>>, 0),
                scan),
          LAMBDA selected_rows :
            IF options.id # NoId
              THEN Ok(SelectSeq(selected_rows,
                                LAMBDA row : MapGet(row.v, "_id") = JStr(options.id)))
              ELSE Ok(selected_rows))))))

\* the table definition move_rows holds as target_definition
target_of(state, options) == MapGet(Docs[state.active_schema].tables, options.to_table)

\* move_rows without the rollback: what the transaction had written when a
\* row failed stays in the tables
move_rows_without_rollback(D, state, from_table, options, scan) ==
    With(move_selection(D, state, from_table, options, scan), LAMBDA selected_rows :
      IF ~IsOk(selected_rows) THEN [res |-> selected_rows, db |-> D, moved |-> 0]
      ELSE IF selected_rows.value = <<>> THEN [res |-> Ok(0), db |-> D, moved |-> 0]
      ELSE move_loop(D, D, selected_rows.value, 1, from_table, options,
                     target_of(state, options), FALSE, state.now))

\* move_rows on the pool's data D: [res, db, moved].  The transaction is
\* committed after the loop; an error return drops it, which rolls it back.
\* moved counts the rows the transaction had moved when the call returned.
move_rows(D, state, from_table, options, scan) ==
    With(move_selection(D, state, from_table, options, scan), LAMBDA selected_rows :
      IF ~IsOk(selected_rows) THEN [res |-> selected_rows, db |-> D, moved |-> 0]
      ELSE IF selected_rows.value = <<>> THEN [res |-> Ok(0), db |-> D, moved |-> 0]
      ELSE With(move_loop(D, D, selected_rows.value, 1, from_table, options,
                          target_of(state, options), FALSE, state.now),
                LAMBDA transaction :
                  IF ~IsOk(transaction.res)
                    THEN [res |-> transaction.res, db |-> D,
                          moved |-> transaction.moved]
                  ELSE transaction))

\* insert_in_transaction, update_in_transaction and delete_in_transaction
\* issue the statements of insert, update and delete on the caller's
\* transaction T; their foreign-key check
\* (validate_foreign_keys_in_transaction) reads T as well.
insert_in_transaction(T, state, table_name, value, row_id) ==
    insert(T, state, table_name, value, row_id)

update_in_transaction(T, state, table_name, id, where_clause, value) ==
    update(T, state, table_name, id, where_clause, value)

delete_in_transaction(T, state, table_name, id, where_clause) ==
    delete(T, state, table_name, id, where_clause)

\* move_rows_in_transaction on the caller's transaction T: [res, db, moved].
\* The caller decides what becomes of T.
move_rows_in_transaction(T, state, from_table, options, scan) ==
    With(move_selection(T, state, from_table, options, scan), LAMBDA selected_rows :
      IF ~IsOk(selected_rows) THEN [res |-> selected_rows, db |-> T, moved |-> 0]
      ELSE IF selected_rows.value = <<>> THEN [res |-> Ok(0), db |-> T, moved |-> 0]
      ELSE move_loop(T, T, selected_rows.value, 1, from_table, options,
                     target_of(state, options), TRUE, state.now))

(***************************************************************************)
(* Function interpreter (relational/src/functions/executor.rs).            *)
(***************************************************************************)
\* the string a spelling belongs to ("?" when the model has no such string)
NameOf(chars) ==
    IF \E n \in DOMAIN Spelling : Spelling[n] = chars
      THEN CHOOSE n \in DOMAIN Spelling : Spelling[n] = chars
      ELSE "?"

\* str::strip_prefix: [some, rest]
strip_prefix(chars, prefix) ==
    IF Len(chars) >= Len(prefix) /\ SubSeq(chars, 1, Len(prefix)) = prefix
      THEN [some |-> TRUE, rest |-> SubSeq(chars, Len(prefix) + 1, Len(chars))]
      ELSE [some |-> FALSE, rest |-> <<>>]

\* str::split('.'): the segments, at least one
RECURSIVE split_dot(_)
split_dot(chars) ==
    IF \A i \in 1..Len(chars) : chars[i] # "." THEN <<chars>>
    ELSE LET i == CHOOSE j \in 1..Len(chars) :
                    chars[j] = "." /\ \A k \in 1..(j - 1) : chars[k] # "."
         IN  <<SubSeq(chars, 1, i - 1)>> \o split_dot(SubSeq(chars, i + 1, Len(chars)))

\* BTreeMap::insert
MapPut(m, k, v) ==
    IF MapHas(m, k) THEN [i \in 1..Len(m) |-> IF m[i][1] = k THEN <<k, v>> ELSE m[i]]
    ELSE Append(m, <<k, v>>)

\* resolve_reference_path over the segments of the path
RECURSIVE resolve_reference_path(_, _, _)
resolve_reference_path(value, segments, i) ==
    IF i > Len(segments) THEN Ok(value)
    ELSE IF segments[i] = <<>> THEN resolve_reference_path(value, segments, i + 1)
    ELSE IF value.t # "obj"
      THEN Err("Validation", "cannot resolve: not an object segment")
    ELSE IF ~MapHas(value.v, NameOf(segments[i]))
      THEN Err("Validation", "missing reference path segment")
    ELSE resolve_reference_path(MapGet(value.v, NameOf(segments[i])), segments, i + 1)

RECURSIVE evaluate_expression(_, _, _)
evaluate_expression(expression, args, vars) ==
    CASE expression.t = "str" ->
           LET text == Chars(expression.v)
               arg_path == strip_prefix(text, Chars("$arg") \o <<".">>)
               var_path == strip_prefix(text, <<"$", "v", "a", "r", ".">>)
               segments == split_dot(var_path.rest)
           IN  IF text = Chars("$arg") THEN Ok(JObj(args))
               ELSE IF arg_path.some
                 THEN resolve_reference_path(JObj(args), split_dot(arg_path.rest), 1)
               ELSE IF var_path.some THEN
                 IF segments[1] = <<>>
                   THEN Err("Validation", "invalid variable reference '$var.'")
                 ELSE IF ~MapHas(vars, NameOf(segments[1]))
                   THEN Err("Validation", "function expression references unknown variable")
                 ELSE resolve_reference_path(MapGet(vars, NameOf(segments[1])),
                                             Tail(segments), 1)
               ELSE Ok(expression)
      [] expression.t = "arr" ->
           LET items == [i \in 1..Len(expression.v) |->
                           evaluate_expression(expression.v[i], args, vars)]
           IN  IF ~IsOk(FirstErr(items)) THEN FirstErr(items)
               ELSE Ok(JArr([i \in 1..Len(items) |-> items[i].value]))
      [] expression.t = "obj" ->
           LET items == [i \in 1..Len(expression.v) |->
                           evaluate_expression(expression.v[i][2], args, vars)]
           IN  IF ~IsOk(FirstErr(items)) THEN FirstErr(items)
               ELSE Ok(JObj([i \in 1..Len(items) |->
                               <<expression.v[i][1], items[i].value>>]))
      [] OTHER -> Ok(expression)

is_truthy(value) ==
    CASE value.t = "null" -> FALSE
      [] value.t = "bool" -> value.v
      [] value.t = "num" -> value.v # 0
      [] value.t = "str" -> Chars(value.v) # <<>>
      [] OTHER -> value.v # <<>>

\* validate_arg_value; raw is NoWhere-like Absent when the arg is not given
Absent == [t |-> "absent", v |-> ""]
RECURSIVE validate_arg_value(_, _)
validate_arg_value(definition, raw) ==
    IF definition.field_type = "optional" THEN
      IF definition.inner = NoInner
        THEN Err("Validation", "optional arg is missing inner schema")
      ELSE IF raw = Absent \/ raw.t = "null" THEN Ok(JNull)
      ELSE validate_arg_value(definition.inner, raw)
    ELSE IF raw = Absent THEN Err("Validation", "missing required function arg")
    ELSE CASE definition.field_type \in {"string", "id"} ->
                IF raw.t = "str" THEN Ok(raw) ELSE Err("Validation", "arg must be a string")
           [] definition.field_type = "number" ->
                IF raw.t = "num" THEN Ok(raw) ELSE Err("Validation", "arg must be a number")
           [] definition.field_type = "boolean" ->
                IF raw.t = "bool" THEN Ok(raw) ELSE Err("Validation", "arg must be a boolean")
           [] OTHER -> Err("Validation", "arg has an unsupported type")

\* validate_args that lets every arg through as it is
validate_args_unchecked(schema, args) == Ok(args)

\* validate_args: Ok(the validated args, one entry per declared arg)
validate_args(schema, args) ==
    LET one(i) == validate_arg_value(schema[i][2],
                     IF MapHas(args, schema[i][1]) THEN MapGet(args, schema[i][1])
                     ELSE Absent)
        all == [i \in 1..Len(schema) |-> one(i)]
    IN  IF \E k \in KeySet(args) : ~MapHas(schema, k)
          THEN Err("Validation", "unknown function arg")
        ELSE IF ~IsOk(FirstErr(all)) THEN FirstErr(all)
        ELSE Ok([i \in 1..Len(schema) |-> <<schema[i][1], all[i].value>>])

Step(op, into, payload) == [op |-> op, into |-> into, payload |-> payload]
Function(kind, args, steps) == [kind |-> kind, args |-> args, steps |-> steps]

required_json_param(step, n, context) ==
    IF ~MapHas(step.payload, n) THEN Err("Validation", "step requires payload value")
    ELSE evaluate_expression(MapGet(step.payload, n), context.args, context.vars)

\* Ok(Absent) stands for Ok(None)
optional_json_param(step, n, context) ==
    IF ~MapHas(step.payload, n) THEN Ok(Absent)
    ELSE Try(evaluate_expression(MapGet(step.payload, n), context.args, context.vars),
             LAMBDA value : IF value.t = "null" THEN Ok(Absent) ELSE Ok(value))

required_string_param(step, n, context) ==
    Try(required_json_param(step, n, context), LAMBDA value :
      IF value.t # "str" THEN Err("Validation", "step payload must evaluate to a string")
      ELSE Ok(value.v))

\* Option<u32>: Ok(<<>>) stands for Ok(None), Ok(<<n>>) for Ok(Some(n)).  The
\* numbers of the model stay below u32::MAX, so "too large for u32" is not
\* among its outcomes.
optional_u32_param(step, n, context) ==
    Try(optional_json_param(step, n, context), LAMBDA value :
      IF value = Absent THEN Ok(<<>>)
      ELSE IF value.t # "num" \/ value.v < 0
        THEN Err("Validation", "step payload must evaluate to an integer")
      ELSE Ok(<<value.v>>))

\* what serde accepts as an OrderByClause, and the clause
order_by_entry_ok(e) ==
    /\ e.t = "obj"
    /\ MapHas(e.v, "field") /\ MapGet(e.v, "field").t = "str"
    /\ MapHas(e.v, "direction") => MapGet(e.v, "direction").t \in {"str", "null"}

order_by_entry(e) ==
    OrderBy(MapGet(e.v, "field").v,
            IF MapHas(e.v, "direction") /\ MapGet(e.v, "direction").t = "str"
              THEN MapGet(e.v, "direction").v ELSE NoDirection)

\* serde_json::from_value::<Vec<OrderByClause>>
optional_order_by_param(step, n, context) ==
    Try(optional_json_param(step, n, context), LAMBDA value :
      IF value = Absent THEN Ok(<<>>)
      ELSE IF value.t # "arr" \/ \E i \in 1..Len(value.v) : ~order_by_entry_ok(value.v[i])
        THEN Err("Validation", "step payload must be an order-by array")
      ELSE Ok([i \in 1..Len(value.v) |-> order_by_entry(value.v[i])]))

required_literal_string(step, n) ==
    IF MapHas(step.payload, n) /\ MapGet(step.payload, n).t = "str"
      THEN Ok(MapGet(step.payload, n).v)
      ELSE Err("Validation", "step payload must be a string literal")

\* Ok([table, options])
parse_query_step(step, context) ==
    Try(required_string_param(step, "table", context), LAMBDA table :
    Try(optional_json_param(step, "where", context), LAMBDA where_clause :
    Try(optional_order_by_param(step, "orderBy", context), LAMBDA order_by :
    Try(optional_u32_param(step, "limit", context), LAMBDA limit :
    Try(optional_u32_param(step, "offset", context), LAMBDA offset :
      Ok([table |-> table,
          options |-> QueryOptions(IF where_clause = Absent THEN NoWhere
                                   ELSE where_clause,
                                   order_by, limit,
                                   IF offset = <<>> THEN 0 ELSE offset[1])]))))))

is_write_step(step) == step.op = "insert"

QueryInsertRefused == "query function cannot execute 'insert' step"

ensure_write_allowed(read_only) ==
    IF read_only THEN Err("Validation", QueryInsertRefused) ELSE Ok(0)

\* the scan order of table t induced by an ordering perm of the row ids
ScanOf(V, t, perm) ==
    IF t \notin TableNames THEN <<>>
    ELSE LET ids == SelectSeq(perm, LAMBDA x : x \in RowIdsOf(V, t))
         IN  [i \in 1..Len(ids) |-> CHOOSE r \in V[t].rows : r["_id"] = ids[i]]

\* what a step hands back: [res, db, context]
StepOut(V, context, r) == [res |-> r, db |-> V, context |-> context]
\* `?` inside a step
TryStep(V, context, r, K(_)) == IF IsOk(r) THEN K(r.value) ELSE StepOut(V, context, r)

\* execute_step_without_transaction / execute_step_with_transaction: the
\* two differ in the view V the repository calls work on (the pool's data,
\* or the transaction) and in the check of the insert step, which the
\* transactional one does not make (read_only FALSE).  row_id is the UUID
\* an insert step generates, perm the order in which MySQL yields rows.
execute_step(V, state, read_only, context, step, row_id, perm) ==
    CASE step.op = "get" ->
           TryStep(V, context, parse_query_step(step, context), LAMBDA parsed :
             StepOut(V, context,
                     Try(query(V, state, parsed.table, parsed.options,
                               ScanOf(V, parsed.table, perm)),
                         LAMBDA rows : Ok(JArr(rows)))))
      [] step.op = "first" ->
           TryStep(V, context, parse_query_step(step, context), LAMBDA parsed :
             StepOut(V, context,
                     first(V, state, parsed.table, parsed.options,
                           ScanOf(V, parsed.table, perm))))
      [] step.op = "insert" ->
           TryStep(V, context, ensure_write_allowed(read_only), LAMBDA allowed :
           TryStep(V, context, required_string_param(step, "table", context), LAMBDA table :
           TryStep(V, context, required_json_param(step, "value", context), LAMBDA payload :
             With(insert(V, state, table, payload, row_id), LAMBDA done :
               [res |-> IF IsOk(done.res) THEN Ok(JStr(row_id)) ELSE done.res,
                db |-> done.db, context |-> context]))))
      [] step.op = "assert" ->
           TryStep(V, context, required_json_param(step, "condition", context),
                   LAMBDA condition :
           TryStep(V, context, required_literal_string(step, "message"), LAMBDA message :
             IF ~is_truthy(condition)
               THEN StepOut(V, context, Err("Validation", "assertion failed"))
               ELSE StepOut(V, context, Ok(JBool(TRUE)))))
      [] step.op = "setVar" ->
           TryStep(V, context, required_literal_string(step, "name"), LAMBDA var_name :
           TryStep(V, context, required_json_param(step, "value", context), LAMBDA value :
             [res |-> Ok(value), db |-> V,
              context |-> [context EXCEPT !.vars = MapPut(@, var_name, value)]]))
      [] step.op = "return" ->
           StepOut(V, context, required_json_param(step, "value", context))
      [] OTHER -> StepOut(V, context, Err("Validation", "unsupported function step op"))

\* one turn of the loop of execute_steps_*: the step, then `into` and
\* last_result.  run = [res, db, context, last_result, returned, executed,
\* inserted]: executed counts the steps that ran, inserted holds the
\* <<table, _id>> of the rows the insert steps wrote.
run_step(run, state, step, row_id, read_only, perm) ==
    With(execute_step(run.db, state, read_only, run.context, step, row_id, perm),
         LAMBDA done :
           IF ~IsOk(done.res)
             THEN [run EXCEPT !.res = done.res, !.db = done.db, !.executed = @ + 1]
           ELSE [res |-> Ok(0),
                 db |-> done.db,
                 context |-> IF step.into # ""
                               THEN [done.context EXCEPT
                                       !.vars = MapPut(@, step.into, done.res.value)]
                               ELSE done.context,
                 last_result |-> done.res.value,
                 returned |-> step.op = "return",
                 executed |-> run.executed + 1,
                 inserted |-> IF step.op = "insert"
                                THEN run.inserted \cup
                                     { <<required_string_param(step, "table",
                                                               run.context).value, row_id>> }
                                ELSE run.inserted])

\* the loop over the steps; read_only /\ is_write_step is the check
\* execute_steps_without_transaction makes before each step
RECURSIVE run_steps(_, _, _, _, _, _, _)
run_steps(run, state, steps, i, read_only, ids, perm) ==
    IF i > Len(steps) \/ ~IsOk(run.res) \/ run.returned THEN run
    ELSE IF read_only /\ is_write_step(steps[i])
      THEN [run EXCEPT !.res = Err("Validation", QueryInsertRefused)]
    ELSE run_steps(run_step(run, state, steps[i], ids[Cardinality(run.inserted) + 1],
                            read_only, perm),
                   state, steps, i + 1, read_only, ids, perm)

NewRun(V, args) ==
    [res |-> Ok(0), db |-> V, context |-> [args |-> args, vars |-> <<>>],
     last_result |-> JNull, returned |-> FALSE, executed |-> 0, inserted |-> {}]

\* a query function whose steps run without the write check
execute_steps_writing(V, state, function, args, read_only, ids, perm) ==
    run_steps(NewRun(V, args), state, function.steps, 1, FALSE, ids, perm)

execute_steps_without_transaction(V, state, function, args, read_only, ids, perm) ==
    run_steps(NewRun(V, args), state, function.steps, 1, read_only, ids, perm)

execute_steps_with_transaction(T, state, function, args, ids, perm) ==
    run_steps(NewRun(T, args), state, function.steps, 1, FALSE, ids, perm)

\* what execute_manifest_function returns: [res, db, executed, inserted,
\* commits]
CallOut(res, D, run, commits) ==
    [res |-> res, db |-> D, executed |-> run.executed, inserted |-> run.inserted,
     commits |-> commits]

\* a mutation whose transaction is kept when its steps fail
keep_transaction(D, run) ==
    IF IsOk(run.res) THEN CallOut(Ok(run.last_result), run.db, run, 1)
    ELSE CallOut(run.res, run.db, run, 0)

\* the end of a mutation: commit when the steps returned Ok, roll back
\* to the pool's data D when they returned an error
end_transaction(D, run) ==
    IF IsOk(run.res) THEN CallOut(Ok(run.last_result), run.db, run, 1)
    ELSE CallOut(run.res, D, run, 0)

\* execute_manifest_function on the pool's data D.  A Query function runs
\* its steps on the pool; a Mutation function runs them in one transaction.
execute_manifest_function(D, state, manifest, endpoint, args, ids, perm) ==
    IF endpoint \notin DOMAIN manifest
      THEN CallOut(Err("NotFound", "function endpoint not found"), D, NewRun(D, <<>>), 0)
    ELSE
      With(validate_args(manifest[endpoint].args, args), LAMBDA validated_args :
        IF ~IsOk(validated_args) THEN CallOut(validated_args, D, NewRun(D, <<>>), 0)
        ELSE IF manifest[endpoint].kind = "query"
          THEN With(execute_steps_without_transaction(D, state, manifest[endpoint],
                                                      validated_args.value, TRUE, ids, perm),
                    LAMBDA run : CallOut(IF IsOk(run.res) THEN Ok(run.last_result)
                                         ELSE run.res, run.db, run, 0))
        ELSE end_transaction(D, execute_steps_with_transaction(D, state, manifest[endpoint],
                                                               validated_args.value,
                                                               ids, perm)))

(***************************************************************************)
(* The state machine.  db is the committed MySQL data, schema_state and    *)
(* schema_meta the two bookkeeping tables of the schema repository.  last  *)
(* records the most recent request and what it returned; probe holds the   *)
(* input and output of the pure functions in the specifications that       *)
(* exercise them, and in the specifications of the vector store and of     *)
(* calls in progress the state those sections describe.                    *)
(***************************************************************************)
VARIABLES db, schema_state, schema_meta, last, probe

vars == <<db, schema_state, schema_meta, last, probe>>

NoProbe == [f |-> "none"]

\* What last remembers of a request besides its result: the source table
\* of a move, which selectors were supplied, whether it ran inside a
\* caller's transaction and whether that transaction held a change when the
\* call returned, whether a prepared payload referred to a missing
\* row, the ids a move selected and how many it had moved when it stopped,
\* and for a function call its name, the rows it inserted before it stopped
\* and the number of commits.
NoInfo ==
    [from |-> "", id_given |-> FALSE, where_given |-> FALSE,
     in_transaction |-> FALSE, written |-> FALSE, fk_miss |-> FALSE,
     batch |-> {}, moved |-> 0,
     fn |-> "", prefix_ok |-> FALSE, inserted |-> {}, commits |-> 0]
Last(op, res, info) == [op |-> op, kind |-> res.kind, msg |-> res.msg, info |-> info]

Init ==
    /\ db = EmptyDb
    /\ schema_state = NoSchemaState
    /\ schema_meta = NoMeta
    /\ last = Last("none", Ok(0), NoInfo)
    /\ probe = NoProbe

\* every _id stored in, or referenced from, some row
UsedIds(D) ==
    UNION { UNION { { r[n] : n \in DOMAIN r } : r \in D[t].rows } : t \in TableNames }
      \cap Range(IdNames)

\* The UUIDs a request generates: ids no row holds or mentions.  UUIDs are
\* interchangeable, so the first unused names are taken.
FreshIds(D) ==
    SelectSeq(IdNames, LAMBDA x : x \in RowIds /\ x \notin UsedIds(D))

(***************************************************************************)
(* Request inputs.                                                         *)
(***************************************************************************)
Title == JObj(<< <<"title", JStr("a")>> >>)
TitleFor(u) == JObj(<< <<"title", JStr("a")>>, <<"user_id", JStr(u)>> >>)
Named == JObj(<< <<"name", JStr("x")>> >>)
Score == JObj(<< <<"score", JNum(1)>> >>)

\* the selectors of update, delete and move: <<id, where>>
Selectors ==
    { <<NoId, NoWhere>>, <<NoId, Title>>, <<NoId, Score>>, <<"r1", Title>>,
      <<"r1", NoWhere>>, <<"r2", NoWhere>> }

\* insert requests: <<table, value>>
InsertRequests ==
    { <<"users", Named>>, <<"users", JObj(<<>>)>>, <<"tasks", Title>>,
      <<"done", TitleFor("r1")>>, <<"1st", Named>> }
      \cup { <<"tasks", TitleFor(u)>> : u \in RowIds }

\* update requests: <<table, id, where, value>>
UpdateRequests ==
    { <<"tasks", s[1], s[2], TitleFor("r1")>> : s \in Selectors }
      \cup { <<"tasks", "r2", NoWhere, TitleFor("r3")>>, <<"tasks", NoId, Title, Title>>,
              <<"users", "r1", NoWhere, Named>> }

\* delete requests: <<table, id, where>>
DeleteRequests ==
    { <<"tasks", s[1], s[2]>> : s \in Selectors }
      \cup { <<"users", r, NoWhere>> : r \in RowIds }
      \cup { <<"done", NoId, Title>> }

\* move requests: <<from, to, id, where>>
MoveRequests ==
    { <<"tasks", "done", s[1], s[2]>> : s \in Selectors }
      \cup { <<"done", "tasks", NoId, Title>>, <<"tasks", "tasks", NoId, Title>>,
              <<"1st", "done", "r1", NoWhere>> }

\* the documents applied while rows are written, and all of them
CrudDocs == { "D1", "D2" }

(***************************************************************************)
(* What a request was asked, for the properties that speak of it.          *)
(***************************************************************************)
\* the payload names a row that does not exist: some Id field of the table
\* holds a non-null value that is the _id of no row of the table it targets
HasFkMiss(V, table_definition, payload) ==
    \E i \in 1..Len(table_definition.fields) :
       LET name == table_definition.fields[i][1]
           base == unwrap_base(table_definition.fields[i][2])
       IN  /\ base.field_type = "id"
           /\ MapHas(payload.known_fields, name)
           /\ MapGet(payload.known_fields, name).t # "null"
           /\ MapGet(payload.known_fields, name).v \notin
                 (IF base.table \in TableNames THEN RowIdsOf(V, base.table) ELSE {})

\* an insert (full_replace = FALSE) or update (TRUE) whose payload was
\* prepared and names a row that does not exist
FkMiss(V, state, table_name, value, full_replace) ==
    LET schema == active_schema(state)
        table_definition == schema_table(schema.value, table_name)
        payload == prepare_payload(table_definition.value, value, full_replace)
    IN  /\ validate_table_name(table_name)
        /\ IsOk(schema)
        /\ IsOk(table_definition)
        /\ IsOk(payload)
        /\ HasFkMiss(V, table_definition.value, payload.value)

(***************************************************************************)
(* Requests.                                                               *)
(***************************************************************************)
\* POST /v1/admin/schema/apply
ApplySchema(d) ==
    LET done == apply_schema(db, schema_state, schema_meta, d) IN
    /\ db' = done.db
    /\ schema_state' = done.state
    /\ schema_meta' = done.meta
    /\ last' = Last("apply", done.res, NoInfo)
    /\ UNCHANGED probe

Insert(table_name, value) ==
    /\ TotalRows(db) < MaxRows
    /\ FreshIds(db) # <<>>
    /\ LET done == insert(db, schema_state, table_name, value, FreshIds(db)[1]) IN
       /\ db' = done.db
       /\ last' = Last("insert", done.res,
                       [NoInfo EXCEPT !.fk_miss =
                          FkMiss(db, schema_state, table_name, value, FALSE)])
    /\ UNCHANGED <<schema_state, schema_meta, probe>>

Update(table_name, id, where_clause, value) ==
    /\ LET done == update(db, schema_state, table_name, id, where_clause, value) IN
       /\ db' = done.db
       /\ last' = Last("update", done.res,
                       [NoInfo EXCEPT !.id_given = id # NoId,
                                      !.where_given = where_clause # NoWhere,
                                      !.fk_miss = /\ (id # NoId) # (where_clause # NoWhere)
                                                  /\ FkMiss(db, schema_state, table_name,
                                                            value, TRUE)])
    /\ UNCHANGED <<schema_state, schema_meta, probe>>

Delete(table_name, id, where_clause) ==
    /\ LET done == delete(db, schema_state, table_name, id, where_clause) IN
       /\ db' = done.db
       /\ last' = Last("delete", done.res,
                       [NoInfo EXCEPT !.id_given = id # NoId,
                                      !.where_given = where_clause # NoWhere])
    /\ UNCHANGED <<schema_state, schema_meta, probe>>

\* the ids of the rows a move selected
BatchOf(V, state, from_table, options, scan) ==
    LET selected_rows == move_selection(V, state, from_table, options, scan)
    IN  IF IsOk(selected_rows)
          THEN { MapGet(selected_rows.value[i].v, "_id").v :
                   i \in 1..Len(selected_rows.value) }
          ELSE {}

MoveRows(from_table, to_table, id, where_clause) ==
    \E scan \in Perms(IF from_table \in TableNames THEN db[from_table].rows ELSE {}) :
       LET options == MoveOptions(to_table, id, where_clause, <<>>, <<>>)
           done == move_rows(db, schema_state, from_table, options, scan)
       IN  /\ db' = done.db
           /\ last' = Last("move", done.res,
                           [NoInfo EXCEPT
                              !.from = from_table,
                              !.id_given = id # NoId,
                              !.where_given = where_clause # NoWhere,
                              !.batch = BatchOf(db, schema_state, from_table, options, scan),
                              !.moved = done.moved])
           /\ UNCHANGED <<schema_state, schema_meta, probe>>

(***************************************************************************)
(* The transactional twins.  A caller that owns a transaction hands it to  *)
(* the repository, commits it when the call returns Ok and drops it when   *)
(* the call returns an error, as execute_manifest_function does with its   *)
(* own.  written tells whether the transaction held a change when the call *)
(* returned.                                                               *)
(***************************************************************************)
InsertTxRequests == { <<"tasks", TitleFor("r1")>>, <<"tasks", TitleFor("r2")>> }
TxSelectors == { <<NoId, NoWhere>>, <<"r1", Title>>, <<"r1", NoWhere>>, <<NoId, Title>> }

Committed(done) == IF IsOk(done.res) THEN done.db ELSE db

InsertInTransaction(table_name, value) ==
    /\ TotalRows(db) < MaxRows
    /\ FreshIds(db) # <<>>
    /\ LET done == insert_in_transaction(db, schema_state, table_name, value,
                                         FreshIds(db)[1]) IN
       /\ db' = Committed(done)
       /\ last' = Last("insert", done.res,
                       [NoInfo EXCEPT !.in_transaction = TRUE,
                                      !.written = done.db # db,
                                      !.fk_miss = FkMiss(db, schema_state, table_name,
                                                         value, FALSE)])
    /\ UNCHANGED <<schema_state, schema_meta, probe>>

UpdateInTransaction(table_name, id, where_clause, value) ==
    /\ LET done == update_in_transaction(db, schema_state, table_name, id,
                                         where_clause, value) IN
       /\ db' = Committed(done)
       /\ last' = Last("update", done.res,
                       [NoInfo EXCEPT !.in_transaction = TRUE,
                                      !.written = done.db # db,
                                      !.id_given = id # NoId,
                                      !.where_given = where_clause # NoWhere,
                                      !.fk_miss = /\ (id # NoId) # (where_clause # NoWhere)
                                                  /\ FkMiss(db, schema_state, table_name,
                                                            value, TRUE)])
    /\ UNCHANGED <<schema_state, schema_meta, probe>>

DeleteInTransaction(table_name, id, where_clause) ==
    /\ LET done == delete_in_transaction(db, schema_state, table_name, id,
                                         where_clause) IN
       /\ db' = Committed(done)
       /\ last' = Last("delete", done.res,
                       [NoInfo EXCEPT !.in_transaction = TRUE,
                                      !.written = done.db # db,
                                      !.id_given = id # NoId,
                                      !.where_given = where_clause # NoWhere])
    /\ UNCHANGED <<schema_state, schema_meta, probe>>

MoveRowsInTransaction(from_table, to_table, id, where_clause) ==
    \E scan \in Perms(db[from_table].rows) :
       LET options == MoveOptions(to_table, id, where_clause, <<>>, <<>>)
           done == move_rows_in_transaction(db, schema_state, from_table, options, scan)
       IN  /\ db' = Committed(done)
           /\ last' = Last("move", done.res,
                           [NoInfo EXCEPT
                              !.in_transaction = TRUE,
                              !.written = done.db # db,
                              !.from = from_table,
                              !.id_given = id # NoId,
                              !.where_given = where_clause # NoWhere,
                              !.batch = BatchOf(db, schema_state, from_table, options, scan),
                              !.moved = done.moved])
           /\ UNCHANGED <<schema_state, schema_meta, probe>>

Next ==
    \/ \E d \in CrudDocs : ApplySchema(d)
    \/ \E r \in InsertRequests : Insert(r[1], r[2])
    \/ \E r \in UpdateRequests : Update(r[1], r[2], r[3], r[4])
    \/ \E r \in DeleteRequests : Delete(r[1], r[2], r[3])
    \/ \E r \in MoveRequests : MoveRows(r[1], r[2], r[3], r[4])
    \/ \E r \in InsertTxRequests : InsertInTransaction(r[1], r[2])
    \/ \E s \in TxSelectors : UpdateInTransaction("tasks", s[1], s[2], TitleFor("r1"))
    \/ \E s \in TxSelectors : DeleteInTransaction("tasks", s[1], s[2])
    \/ \E s \in TxSelectors : MoveRowsInTransaction("tasks", "done", s[1], s[2])

Spec == Init /\ [][Next]_vars

(***************************************************************************)
(* Schema evolution: every document, applied in any order between inserts  *)
(* and deletes.                                                            *)
(***************************************************************************)
SchemaDeletes == { <<"users", "r1", NoWhere>>, <<"tasks", NoId, Title>> }

SchemaNext ==
    \/ \E d \in DocNames : ApplySchema(d)
    \/ \E r \in InsertRequests : Insert(r[1], r[2])
    \/ \E r \in SchemaDeletes : Delete(r[1], r[2], r[3])

SpecSchema == Init /\ [][SchemaNext]_vars

(***************************************************************************)
(* Function calls (POST /v1/functions/call).  The manifest holds the step  *)
(* lists compile_handler produced; it ends a step list at the first        *)
(* return.  ensure_runtime_tables calls a repository method the source     *)
(* tree does not define; the tables of the model exist only through        *)
(* apply_schema.                                                           *)
(***************************************************************************)
InsertStep(into, table, value) ==
    Step("insert", into, << <<"table", JStr(table)>>, <<"value", value>> >>)
GetStep(into, table) == Step("get", into, << <<"table", JStr(table)>> >>)
ReturnStep(value) == Step("return", "", << <<"value", value>> >>)

Manifest ==
    [ q_read   |-> Function("query", <<>>,
                     << GetStep("rows", "tasks"), ReturnStep(JStr("$var.rows")) >>),
      q_insert |-> Function("query", <<>>, << InsertStep("", "users", Named) >>),
      q_get_insert |->
                   Function("query", <<>>,
                     << GetStep("rows", "done"), InsertStep("", "users", Named),
                        ReturnStep(JStr("$var.rows")) >>),
      m_pair   |-> Function("mutation", << <<"name", StringField>> >>,
                     << InsertStep("u", "users",
                                   JObj(<< <<"name", JStr("$arg.name")>> >>)),
                        InsertStep("t", "tasks",
                                   JObj(<< <<"title", JStr("a")>>,
                                           <<"user_id", JStr("$var.u")>> >>)),
                        ReturnStep(JStr("$var.t")) >>),
      m_fk     |-> Function("mutation", << <<"id", StringField>> >>,
                     << InsertStep("", "users", Named),
                        InsertStep("", "tasks",
                                   JObj(<< <<"title", JStr("a")>>,
                                           <<"user_id", JStr("$arg.id")>> >>)) >>),
      m_assert |-> Function("mutation", << <<"ok", BooleanField>> >>,
                     << InsertStep("", "users", Named),
                        Step("assert", "", << <<"condition", JStr("$arg.ok")>>,
                                              <<"message", JStr("up")>> >>) >>),
      m_unknown |-> Function("mutation", <<>>,
                     << InsertStep("", "users", Named),
                        Step("setVar", "", << <<"name", JStr("t")>>,
                                              <<"value", JStr("$var.nope")>> >>) >>) ]

\* calls: <<endpoint, args>>
CallRequests ==
    { <<"q_read", <<>>>>, <<"q_insert", <<>>>>, <<"q_get_insert", <<>>>>,
      <<"m_pair", << <<"name", JStr("x")>> >>>>,
      <<"m_fk", << <<"id", JStr("r1")>> >>>>, <<"m_fk", << <<"id", JStr("r3")>> >>>>,
      <<"m_assert", << <<"ok", JBool(TRUE)>> >>>>, <<"m_assert", << <<"ok", JBool(FALSE)>> >>>>,
      <<"m_assert", <<>>>>, <<"m_unknown", <<>>>>, <<"nope", <<>>>> }

\* the orders in which MySQL may yield the rows a get step reads
Reverse(s) == [i \in 1..Len(s) |-> s[Len(s) + 1 - i]]
CallScans == { IdNames, Reverse(IdNames) }

\* the most rows one call inserts
MaxInserts == 2

\* the steps of a function before its first insert step
BeforeInsert(steps) ==
    SubSeq(steps, 1, (CHOOSE i \in 1..Len(steps) :
                        /\ is_write_step(steps[i])
                        /\ \A j \in 1..(i - 1) : ~is_write_step(steps[j])) - 1)

HasInsert(endpoint) ==
    /\ endpoint \in DOMAIN Manifest
    /\ \E i \in 1..Len(Manifest[endpoint].steps) : is_write_step(Manifest[endpoint].steps[i])

\* the arguments are valid and every step before the first insert step
\* succeeds
PrefixOk(D, state, endpoint, args, ids, perm) ==
    /\ HasInsert(endpoint)
    /\ IsOk(validate_args(Manifest[endpoint].args, args))
    /\ IsOk(run_steps(NewRun(D, validate_args(Manifest[endpoint].args, args).value),
                      state, BeforeInsert(Manifest[endpoint].steps), 1, TRUE, ids,
                      perm).res)

CallFunction(endpoint, args) ==
    /\ TotalRows(db) + MaxInserts <= MaxRows
    /\ Len(FreshIds(db)) >= MaxInserts
    /\ \E perm \in CallScans :
         LET done == execute_manifest_function(db, schema_state, Manifest, endpoint,
                                               args, FreshIds(db), perm) IN
         /\ db' = done.db
         /\ last' = Last("call", done.res,
                         [NoInfo EXCEPT
                            !.fn = endpoint,
                            !.prefix_ok = PrefixOk(db, schema_state, endpoint, args,
                                                   FreshIds(db), perm),
                            !.inserted = done.inserted,
                            !.commits = done.commits])
    /\ UNCHANGED <<schema_state, schema_meta, probe>>

FnNext ==
    \/ \E d \in CrudDocs : ApplySchema(d)
    \/ \E r \in InsertRequests : Insert(r[1], r[2])
    \/ \E r \in SchemaDeletes : Delete(r[1], r[2], r[3])
    \/ \E r \in CallRequests : CallFunction(r[1], r[2])

SpecFn == Init /\ [][FnNext]_vars

(***************************************************************************)
(* The where-clause and order-by compilers on their own: every predicate   *)
(* and order-by list of a bounded grammar is compiled against the allowed  *)
(* fields of a table one of whose fields has a name that is no identifier. *)
(* A JSON object is compiled in the order its map iterates; the inputs     *)
(* hold objects in either key order.                                       *)
(***************************************************************************)
ProbeTable ==
    Table(<< <<"bad name", StringField>>, <<"score", StringField>>,
             <<"title", StringField>> >>, <<>>)
ProbeAllowed == allowed_fields(ProbeTable)

ProbeFields == { "title", "score", "bad name", "x-y", "_id" }
ProbeValues == { JStr("a"), JNum(1), JNull, JBool(TRUE), JArr(<<JStr("a")>>) }
ProbeOperators ==
    { "$eq", "$ne", "$gt", "$gte", "$lt", "$lte", "$contains", "$in", "$nin",
      "$regex", "eq" }
ProbeOperands == { JStr("a"), JNum(1), JNull, JArr(<<JStr("a"), JNum(2)>>), JArr(<<>>) }

One(key, value) == JObj(<< <<key, value>> >>)

\* conditions on one field
Leaves ==
    { One(f, v) : f \in ProbeFields, v \in ProbeValues }
      \cup { One(f, One(op, x)) : f \in ProbeFields, op \in ProbeOperators,
                                  x \in ProbeOperands }

\* conditions whose operands all differ, to be combined
Parts ==
    { One("title", JStr("a")),
      One("score", One("$gt", JNum(1))),
      One("title", One("$contains", JStr("b"))),
      One("score", One("$in", JArr(<<JNum(2), JNum(3)>>))),
      One("_id", One("$ne", JStr("x"))),
      One("title", JNull),
      One("score", JObj(<< <<"$gte", JNum(4)>>, <<"$lt", JNum(5)>> >>)),
      One("x-y", JStr("y")),
      One("title", One("$regex", JStr("a"))) }

Combined ==
    { One(g, JArr(<<a, b>>)) : g \in {"$and", "$or"}, a \in Parts, b \in Parts }
      \cup { JObj(<<p[1].v[1], p[2].v[1]>>) :
                p \in { q \in Parts \X Parts : q[1].v[1][1] # q[2].v[1][1] } }
      \cup { JObj(<< <<"$or", JArr(<<a, b>>)>>, c.v[1] >>) : a \in Parts, b \in Parts, c \in Parts }
      \cup { One("$and", JArr(<<One("$or", JArr(<<a, b>>)), c>>)) :
                a \in Parts, b \in Parts, c \in Parts }

Malformed ==
    { JStr("a"), JObj(<<>>), One("$and", JStr("a")), One("$or", JArr(<<>>)),
      One("$and", JArr(<<JStr("a")>>)) }

WhereInputs == Leaves \cup Combined \cup Malformed

OrderEntries ==
    { OrderBy(f, d) : f \in { "title", "x-y", "bad name", "_id" },
                      d \in { NoDirection, "asc", "DESC", "Asc", "up", "" } }
OrderInputs ==
    { <<>> } \cup { <<a>> : a \in OrderEntries }
            \cup { <<a, b>> : a \in OrderEntries, b \in OrderEntries }

\* a call that is about to be made: its input is drawn, nothing is compiled
Pending(f, input) == [f |-> f, input |-> input, res |-> Ok(0)]

InitWhere ==
    /\ db = EmptyDb
    /\ schema_state = NoSchemaState
    /\ schema_meta = NoMeta
    /\ last = Last("none", Ok(0), NoInfo)
    /\ probe \in { Pending("where?", w) : w \in WhereInputs }
                   \cup { Pending("order?", e) : e \in OrderInputs }

CompileWhere ==
    /\ probe.f = "where?"
    /\ probe' = [f |-> "where", input |-> probe.input,
                 res |-> compile_where_clause(probe.input, ProbeAllowed)]
    /\ UNCHANGED <<db, schema_state, schema_meta, last>>

CompileOrderBy ==
    /\ probe.f = "order?"
    /\ probe' = [f |-> "order", input |-> probe.input,
                 res |-> compile_order_by(probe.input, ProbeAllowed)]
    /\ UNCHANGED <<db, schema_state, schema_meta, last>>

WhereNext == CompileWhere \/ CompileOrderBy

SpecWhere == InitWhere /\ [][WhereNext]_vars

(***************************************************************************)
(* The schema signature on its own.  One schema content (three tables, an  *)
(* index, a migration rule with a field map and an object-valued default)  *)
(* is built twice, each time with its own insertion orders for the tables, *)
(* the fields of tasks, the field map and the keys of the default, and the *)
(* signatures of both documents are computed.                              *)
(***************************************************************************)
\* the entries in the order given, or in the opposite order
Ordered(entries, backwards) == IF backwards THEN Reverse(entries) ELSE entries

\* an insertion order: for each of the four maps, forwards or backwards
InsertionOrders == [ {"tables", "fields", "field_map", "default"} -> BOOLEAN ]

\* the document with the content above, its maps filled in the order o
BuildDocument(preserve_order, o) ==
    Document(
      BTreeFrom(Ordered(
        << <<"users", UsersTable>>,
           <<"tasks", Table(BTreeFrom(Ordered(<< <<"title", StringField>>,
                                                 <<"user_id", IdField("users")>>,
                                                 <<"note", OptionalField(StringField)>> >>,
                                              o["fields"])),
                            << Index("by_title", <<"title">>) >>)>>,
           <<"done", DoneTable>> >>, o["tables"])),
      BTreeFrom(<< <<"done",
                     Rule("tasks",
                          BTreeFrom(Ordered(<< <<"title", "title">>, <<"note", "name">> >>,
                                            o["field_map"])),
                          BTreeFrom(<< <<"note",
                                         JObj(JsonMapFrom(preserve_order,
                                                Ordered(<< <<"b", JNum(1)>>,
                                                           <<"a", JArr(<<JStr("x"), JNull>>)>>,
                                                           <<"y", JBool(TRUE)>> >>,
                                                        o["default"])))>> >>))>> >>))

InitSig ==
    /\ db = EmptyDb
    /\ schema_state = NoSchemaState
    /\ schema_meta = NoMeta
    /\ last = Last("none", Ok(0), NoInfo)
    /\ probe \in { Pending("signature?", [preserve_order |-> p, a |-> a, b |-> b]) :
                     p \in BOOLEAN, a \in InsertionOrders, b \in InsertionOrders }

\* schema_signature of the two documents, and their canonical JSON
ComputeSignatures ==
    /\ probe.f = "signature?"
    /\ LET A == BuildDocument(probe.input.preserve_order, probe.input.a)
           B == BuildDocument(probe.input.preserve_order, probe.input.b)
       IN  probe' = [f |-> "signature", input |-> probe.input,
                     res |-> [a |-> schema_signature(probe.input.preserve_order, A),
                              b |-> schema_signature(probe.input.preserve_order, B),
                              canonical_a |->
                                canonical_schema_json(probe.input.preserve_order, A),
                              other_build |->
                                schema_signature(~probe.input.preserve_order, A)]]
    /\ UNCHANGED <<db, schema_state, schema_meta, last>>

SigNext == ComputeSignatures

SpecSig == InitSig /\ [][SigNext]_vars

(***************************************************************************)
(* Embedding codec (vector/src/codec.rs).  An f32 is its IEEE-754 bit      *)
(* pattern: sign, biased exponent and mantissa.  A byte is 0..255.         *)
(***************************************************************************)
F32(sign, exponent, mantissa) == [sign |-> sign, exp |-> exponent, mant |-> mantissa]

\* f32::to_le_bytes: the 32 bits, least significant byte first
to_le_bytes(value) ==
    << value.mant % 256,
       (value.mant \div 256) % 256,
       (value.exp % 2) * 128 + (value.mant \div 65536),
       value.sign * 128 + (value.exp \div 2) >>

\* f32::from_le_bytes
from_le_bytes(chunk) ==
    F32(chunk[4] \div 128,
        (chunk[4] % 128) * 2 + (chunk[3] \div 128),
        (chunk[3] % 128) * 65536 + chunk[2] * 256 + chunk[1])

\* a decoder that reads the four bytes most significant first
from_be_bytes(chunk) == from_le_bytes(<<chunk[4], chunk[3], chunk[2], chunk[1]>>)

\* PartialEq for f32: a NaN equals nothing, the two zeros are equal
is_nan(value) == value.exp = 255 /\ value.mant # 0
is_zero(value) == value.exp = 0 /\ value.mant = 0
f32_eq(a, b) ==
    /\ ~is_nan(a)
    /\ ~is_nan(b)
    /\ (a = b \/ (is_zero(a) /\ is_zero(b)))

\* PartialEq for Vec<f32>
vec_eq(a, b) == Len(a) = Len(b) /\ \A i \in 1..Len(a) : f32_eq(a[i], b[i])

encode_embedding(values) == Flatten([i \in 1..Len(values) |-> to_le_bytes(values[i])])

\* decode_embedding with the given reading of a chunk
decode_chunks(bytes, read(_)) ==
    IF Len(bytes) % 4 # 0
      THEN Err("String", "embedding blob length is not a multiple of 4")
    ELSE Ok([i \in 1..(Len(bytes) \div 4) |-> read(SubSeq(bytes, 4 * i - 3, 4 * i))])

decode_embedding_be(bytes) == decode_chunks(bytes, from_be_bytes)

decode_embedding(bytes) == decode_chunks(bytes, from_le_bytes)

\* 1.0, 2.5, -3.25, the zeros, the largest finite value, the smallest
\* subnormal, the infinities and two NaNs
Floats ==
    { F32(0, 127, 0), F32(0, 128, 2097152), F32(1, 128, 5242880),
      F32(0, 0, 0), F32(1, 0, 0), F32(0, 254, 8388607), F32(0, 0, 1),
      F32(0, 255, 0), F32(1, 255, 0), F32(0, 255, 4194304), F32(1, 255, 1) }
MaxVector == 2
Vectors == UNION { [1..n -> Floats] : n \in 0..MaxVector }

BlobBytes == { 0, 63, 128, 255 }
MaxBlob == 5
Blobs == UNION { [1..n -> BlobBytes] : n \in 0..MaxBlob }

InitCodec ==
    /\ db = EmptyDb
    /\ schema_state = NoSchemaState
    /\ schema_meta = NoMeta
    /\ last = Last("none", Ok(0), NoInfo)
    /\ probe \in { Pending("vector?", v) : v \in Vectors }
                   \cup { Pending("blob?", b) : b \in Blobs }

\* tests::round_trip_codec_and_norm: encode, then decode what was encoded
RoundTrip ==
    /\ probe.f = "vector?"
    /\ With(encode_embedding(probe.input), LAMBDA encoded :
         probe' = [f |-> "round trip", input |-> probe.input,
                   res |-> [encoded |-> encoded, decoded |-> decode_embedding(encoded)]])
    /\ UNCHANGED <<db, schema_state, schema_meta, last>>

Decode ==
    /\ probe.f = "blob?"
    /\ probe' = [f |-> "decode", input |-> probe.input,
                 res |-> decode_embedding(probe.input)]
    /\ UNCHANGED <<db, schema_state, schema_meta, last>>

CodecNext == RoundTrip \/ Decode

SpecCodec == InitCodec /\ [][CodecNext]_vars

(***************************************************************************)
(* Moves on servers with different query caps.  The server is configured   *)
(* with a cap of 1, 2 or the default; a client applies D2, inserts a user  *)
(* and tasks, and moves tasks to done.  probe records what the selector of *)
(* the move matched in the source table when the call was made.            *)
(***************************************************************************)
QueryCaps == { 1, 2, max_query_limit }

TitleB(u) == JObj(<< <<"title", JStr("b")>>, <<"user_id", JStr(u)>> >>)

MoveInserts == { <<"users", Named>>, <<"tasks", TitleFor("r1")>>, <<"tasks", TitleB("r1")>> }

\* move selectors: <<id, where>>
MoveSelectors == { <<NoId, Title>>, <<NoId, NoWhere>> } \cup { <<r, NoWhere>> : r \in RowIds }

\* the _ids of the rows of table_name the selector matches
Matching(D, table_name, id, where_clause) ==
    IF id # NoId THEN { r \in RowIdsOf(D, table_name) : r = id }
    ELSE IF where_clause = NoWhere THEN {}
    ELSE With(compile_where_clause(where_clause, allowed_fields(TasksV2)), LAMBDA compiled :
           { r["_id"] : r \in { q \in D[table_name].rows :
                                  SqlWhere(compiled.value.clause, 1,
                                           compiled.value.params, 1, q) } })

InitMove ==
    /\ db = EmptyDb
    /\ schema_state \in { [NoSchemaState EXCEPT !.max_query_limit = cap] : cap \in QueryCaps }
    /\ schema_meta = NoMeta
    /\ last = Last("none", Ok(0), NoInfo)
    /\ probe = NoProbe

\* move_rows from tasks to done, with what its selector matched
MoveTasks(id, where_clause) ==
    \E scan \in Perms(db["tasks"].rows) :
       LET options == MoveOptions("done", id, where_clause, <<>>, <<>>)
           done == move_rows(db, schema_state, "tasks", options, scan)
       IN  /\ db' = done.db
           /\ last' = Last("move", done.res,
                           [NoInfo EXCEPT !.from = "tasks",
                                          !.id_given = id # NoId,
                                          !.where_given = where_clause # NoWhere,
                                          !.moved = done.moved])
           /\ probe' = [f |-> "move", matching |-> Matching(db, "tasks", id, where_clause)]
           /\ UNCHANGED <<schema_state, schema_meta>>

MoveNext ==
    \/ ApplySchema("D2")
    \/ \E r \in MoveInserts : Insert(r[1], r[2])
    \/ \E s \in MoveSelectors : MoveTasks(s[1], s[2])

SpecMove == InitMove /\ [][MoveNext]_vars

(***************************************************************************)
(* Moves with a row mapping.  The clock advances between the requests; a   *)
(* client applies D2, inserts a user and tasks, and moves tasks to done     *)
(* under a field map and defaults.  probe records the request of the move. *)
(***************************************************************************)
\* the reading of the clock after now
Later(now) ==
    LET i == CHOOSE j \in 1..Len(Instants) : Instants[j] = now
    IN  IF i < Len(Instants) THEN << Instants[i + 1] >> ELSE <<>>

\* the requests of a move: [from, options]
MovePlan(from, to, id, where_clause, field_map, defaults) ==
    [from |-> from, options |-> MoveOptions(to, id, where_clause, field_map, defaults)]

\* row mappings: <<field_map, defaults>>
RowMappings ==
    { << <<>>, <<>> >>,
      << << <<"note", "title">> >>, <<>> >>,
      << << <<"title", "gone">> >>, << <<"note", JStr("n")>>, <<"title", JStr("d")>> >> >>,
      << << <<"title", "gone">> >>, <<>> >> }

\* the tasks of one user
OfUser(u) == JObj(<< <<"user_id", JStr(u)>> >>)

\* move selectors: <<id, where>>
PlanSelectors == { <<"r2", NoWhere>>, <<NoId, OfUser("r1")>> }

MovePlans ==
    { MovePlan("tasks", "done", s[1], s[2], m[1], m[2]) :
        s \in PlanSelectors, m \in RowMappings }

\* Utc::now() shows a later instant
Tick ==
    /\ Later(schema_state.now) # <<>>
    /\ schema_state' = [schema_state EXCEPT !.now = Later(schema_state.now)[1]]
    /\ last' = Last("tick", Ok(0), NoInfo)
    /\ probe' = NoProbe
    /\ UNCHANGED <<db, schema_meta>>

\* insert of a row at the instant the clock shows
InsertNow(table_name, value) ==
    /\ TotalRows(db) < MaxRows
    /\ FreshIds(db) # <<>>
    /\ LET done == insert(db, schema_state, table_name, value, FreshIds(db)[1]) IN
       /\ db' = done.db
       /\ last' = Last("insert", done.res, NoInfo)
    /\ probe' = NoProbe
    /\ UNCHANGED <<schema_state, schema_meta>>

\* move_rows, with the request it served
MoveMapped(plan) ==
    \E scan \in Perms(db[plan.from].rows) :
       LET done == move_rows(db, schema_state, plan.from, plan.options, scan)
       IN  /\ db' = done.db
           /\ last' = Last("move", done.res,
                           [NoInfo EXCEPT !.from = plan.from,
                                          !.id_given = plan.options.id # NoId,
                                          !.where_given = plan.options.where_clause # NoWhere,
                                          !.moved = done.moved])
           /\ probe' = [f |-> "moved", plan |-> plan, value |-> done.res.value]
           /\ UNCHANGED <<schema_state, schema_meta>>

MovedNext ==
    \/ schema_state.active_schema = "none" /\ ApplySchema("D2")
    \/ \E r \in MoveInserts : InsertNow(r[1], r[2])
    \/ Tick
    \/ \E plan \in MovePlans : MoveMapped(plan)

SpecMoved == Init /\ [][MovedNext]_vars

(***************************************************************************)
(* The vector store (vector/src/repository.rs).  In this specification     *)
(* probe holds the repository and its tables: max_dimension, the rows of   *)
(* vector_collections and of vector_items, and the last add_items request  *)
(* with the ids it returned.                                               *)
(***************************************************************************)
MaxItems == 2

\* the values Uuid::new_v4 hands out, in the order the model takes them
Uuids == [i \in 1..MaxItems |-> "u" \o ToString(i)]

\* Uuid::new_v4().to_string(): an id no row of vector_items has
new_v4(T) == LET free == SelectSeq(Uuids, LAMBDA u : \A r \in T.vector_items : r.id # u)
             IN  free[1]

NewVectorItem(id, embedding) == [id |-> id, embedding |-> embedding]

\* validate_embedding
validate_embedding(embedding, max_dimension) ==
    IF embedding = <<>> THEN Err("Validation", "embedding cannot be empty")
    ELSE IF Len(embedding) > max_dimension
      THEN Err("Validation", "embedding dimension exceeds configured max")
    ELSE Ok(0)

\* vector_norm, by what kind of f64 the root of the sum of squares is
vector_norm(values) ==
    IF \E i \in 1..Len(values) : is_nan(values[i]) THEN "NaN"
    ELSE IF \E i \in 1..Len(values) : values[i].exp = 255 THEN "inf"
    ELSE "finite"

\* create_collection: [res, store]; collection_id is the generated UUID
create_collection(S, name, collection_id) ==
    IF name = " " \/ name = ""
      THEN [res |-> Err("Validation", "collection name cannot be empty"), store |-> S]
    ELSE IF \E c \in S.collections : c.name = name
      THEN [res |-> Err("Database", "duplicate entry for key name"), store |-> S]
    ELSE [res |-> Ok(name),
          store |-> [S EXCEPT !.collections = @ \cup {[id |-> collection_id, name |-> name]}]]

\* the loop of add_items inside its transaction T: [res, store].  MySQL
\* either stores a norm that is not finite in the DOUBLE column or rejects
\* it (nan_stored).
RECURSIVE add_loop(_, _, _, _, _, _, _)
add_loop(T, max_dimension, collection_id, items, i, inserted_ids, nan_stored) ==
    IF i > Len(items) THEN [res |-> Ok(inserted_ids), store |-> T]
    ELSE
      With(items[i], LAMBDA item :
      With(validate_embedding(item.embedding, max_dimension), LAMBDA valid :
        IF ~IsOk(valid) THEN [res |-> valid, store |-> T]
        ELSE
          With(IF item.id # <<>> THEN item.id[1] ELSE new_v4(T), LAMBDA id :
            IF vector_norm(item.embedding) # "finite" /\ ~nan_stored
              THEN [res |-> Err("Database", "out of range value for embedding_norm"),
                    store |-> T]
            ELSE IF \E r \in T.vector_items : r.id = id
              THEN [res |-> Err("Database", "duplicate primary key"), store |-> T]
            ELSE add_loop([T EXCEPT !.vector_items = @ \cup
                              {[id |-> id, collection_id |-> collection_id,
                                embedding_blob |-> encode_embedding(item.embedding),
                                embedding_dim |-> Len(item.embedding),
                                embedding_norm |-> vector_norm(item.embedding)]}],
                          max_dimension, collection_id, items, i + 1,
                          Append(inserted_ids, id), nan_stored))))

\* add_items without the rollback: what the transaction had written when an
\* item failed stays in vector_items
add_items_without_rollback(S, max_dimension, collection_name, items, nan_stored) ==
    With({ c \in S.collections : c.name = collection_name }, LAMBDA found :
      IF found = {} THEN [res |-> Err("NotFound", "collection not found"), store |-> S]
      ELSE IF items = <<>> THEN [res |-> Ok(<<>>), store |-> S]
      ELSE add_loop(S, max_dimension, (CHOOSE c \in found : TRUE).id, items, 1, <<>>,
                    nan_stored))

\* add_items: [res, store].  The transaction is committed after the loop; an
\* error return drops it, which rolls it back.
add_items(S, max_dimension, collection_name, items, nan_stored) ==
    With({ c \in S.collections : c.name = collection_name }, LAMBDA found :
      IF found = {} THEN [res |-> Err("NotFound", "collection not found"), store |-> S]
      ELSE IF items = <<>> THEN [res |-> Ok(<<>>), store |-> S]
      ELSE With(add_loop(S, max_dimension, (CHOOSE c \in found : TRUE).id, items, 1, <<>>,
                         nan_stored),
                LAMBDA transaction :
                  IF IsOk(transaction.res) THEN transaction
                  ELSE [res |-> transaction.res, store |-> S]))

\* the configured SKYPYDB_VECTOR_MAX_DIM of the servers of the model
VectorMaxDims == { 1, 2 }

CollectionNames == { "c1", "c2", " " }

\* the UUID create_collection generates for a collection
CollectionIds == [c1 |-> "k1", c2 |-> "k2"]

UnitFloat == F32(0, 127, 0)
QuietNaN == F32(0, 255, 4194304)

\* the items a client sends, and its batches
NewItems ==
    { NewVectorItem(id, embedding) :
        id \in { <<>>, <<"i1">> },
        embedding \in { <<>>, <<UnitFloat>>, <<UnitFloat, UnitFloat>>, <<QuietNaN>> } }
MaxBatch == 2
Batches == UNION { [1..n -> NewItems] : n \in 0..MaxBatch }

InitVector ==
    /\ db = EmptyDb
    /\ schema_state = NoSchemaState
    /\ schema_meta = NoMeta
    /\ last = Last("none", Ok(0), NoInfo)
    /\ probe \in { [f |-> "vector", max_dimension |-> d,
                    store |-> [collections |-> {}, vector_items |-> {}],
                    request |-> <<>>, collection |-> "", ids |-> <<>>] :
                   d \in VectorMaxDims }

CreateCollection(name) ==
    /\ probe.f = "vector"
    /\ LET done == create_collection(probe.store, name,
                                     IF name \in DOMAIN CollectionIds
                                       THEN CollectionIds[name] ELSE "k0")
       IN  /\ probe' = [probe EXCEPT !.store = done.store, !.request = <<>>,
                                     !.collection = "", !.ids = <<>>]
           /\ last' = Last("create_collection", done.res, NoInfo)
    /\ UNCHANGED <<db, schema_state, schema_meta>>

AddItems(collection_name, items) ==
    /\ probe.f = "vector"
    /\ Cardinality(probe.store.vector_items) + Len(items) <= MaxItems
    /\ \E nan_stored \in BOOLEAN :
         LET done == add_items(probe.store, probe.max_dimension, collection_name, items,
                               nan_stored)
         IN  /\ probe' = [probe EXCEPT !.store = done.store, !.request = items,
                                       !.collection = collection_name,
                                       !.ids = IF IsOk(done.res) THEN done.res.value
                                               ELSE <<>>]
             /\ last' = Last("add_items", done.res, NoInfo)
    /\ UNCHANGED <<db, schema_state, schema_meta>>

VectorNext ==
    \/ \E name \in CollectionNames : CreateCollection(name)
    \/ \E name \in { "c1", "c2" }, items \in Batches : AddItems(name, items)

SpecVector == InitVector /\ [][VectorNext]_vars

(***************************************************************************)
(* apply_schema statement by statement (planner.rs 30-116).  In this       *)
(* specification probe is the call of apply_schema in progress: pc names   *)
(* the statement it is about to execute, previous the active schema it     *)
(* read at its start.  The server may stop before any statement; requests  *)
(* are served between the calls.                                           *)
(***************************************************************************)
NoApply ==
    [f |-> "apply", pc |-> "idle", d |-> "none", order |-> <<>>, i |-> 0,
     previous |-> "none", removed |-> {}]

\* the call has ended: it returned, or the server stopped in the middle
Ended(pc) == pc \in { "idle", "returned", "stopped" }

\* where apply_schema goes after the loop over the tables
after_tables(removed) == IF removed = {} THEN "active" ELSE "unmanaged"

\* where apply_schema goes after the upsert_table_meta of the i-th table
after_table_first(order, i, removed) == after_tables(removed)

after_table(order, i, removed) ==
    IF i < Len(order) THEN "ensure" ELSE after_tables(removed)

\* the write of the key active_schema by set_active_schema
write_active_schema(state, d) == [state EXCEPT !.active_schema = d]

\* the write of the key active_schema_signature by set_active_schema
write_active_schema_signature(state, signature) ==
    [state EXCEPT !.active_schema_signature = signature]

InitApply ==
    /\ db = EmptyDb
    /\ schema_state = NoSchemaState
    /\ schema_meta = NoMeta
    /\ last = Last("none", Ok(0), NoInfo)
    /\ probe = NoApply

\* the table the loop is at
AtTable == probe.order[probe.i]

\* the call returns res
Return(res) ==
    /\ probe' = [probe EXCEPT !.pc = "returned"]
    /\ last' = Last("apply", res, NoInfo)

\* validate_schema_document, get_active_schema, the signatures and the
\* apply order
ApplyBegin(d) ==
    /\ Ended(probe.pc)
    /\ LET valid == validate_schema_document(Docs[d])
           order == resolve_table_apply_order(Docs[d])
           begun == [NoApply EXCEPT !.d = d, !.previous = schema_state.active_schema]
       IN  IF ~IsOk(valid)
             THEN probe' = [begun EXCEPT !.pc = "returned"] /\ last' = Last("apply", valid, NoInfo)
           ELSE IF ~IsOk(order)
             THEN probe' = [begun EXCEPT !.pc = "returned"] /\ last' = Last("apply", order, NoInfo)
           ELSE /\ probe' = [begun EXCEPT !.pc = "ensure", !.order = order.value, !.i = 1]
                /\ UNCHANGED last
    /\ UNCHANGED <<db, schema_state, schema_meta>>

ApplyEnsure ==
    /\ probe.pc = "ensure"
    /\ LET done == ensure_relational_table(db, AtTable,
                                           MapGet(Docs[probe.d].tables, AtTable))
       IN  /\ db' = done.db
           /\ IF IsOk(done.res) THEN probe' = [probe EXCEPT !.pc = "index"] /\ UNCHANGED last
              ELSE Return(done.res)
    /\ UNCHANGED <<schema_state, schema_meta>>

ApplyIndexes ==
    /\ probe.pc = "index"
    /\ LET done == ensure_indexes(db, AtTable, MapGet(Docs[probe.d].tables, AtTable), 1)
       IN  /\ db' = done.db
           /\ IF IsOk(done.res)
                THEN /\ probe' = [probe EXCEPT !.pc = IF has_rule(Docs[probe.d], AtTable)
                                                        THEN "migrate" ELSE "meta"]
                     /\ UNCHANGED last
              ELSE Return(done.res)
    /\ UNCHANGED <<schema_state, schema_meta>>

ApplyMigrate ==
    /\ probe.pc = "migrate"
    /\ LET rule == MapGet(Docs[probe.d].migrations, AtTable)
           done == migrate_rows_to_table(db, rule.from, AtTable,
                                         MapGet(Docs[probe.d].tables, AtTable), rule)
       IN  /\ db' = done.db
           /\ IF IsOk(done.res) THEN probe' = [probe EXCEPT !.pc = "meta"] /\ UNCHANGED last
              ELSE Return(done.res)
    /\ UNCHANGED <<schema_state, schema_meta>>

ApplyMeta ==
    /\ probe.pc = "meta"
    /\ schema_meta' = upsert_table_meta(schema_meta, AtTable,
                                        MapGet(DocTableSignatures[probe.d], AtTable), TRUE)
    /\ LET removed == KeySet(get_active_schema([schema_state EXCEPT
                                                  !.active_schema = probe.previous]).tables)
                         \ KeySet(Docs[probe.d].tables)
       IN  probe' = [probe EXCEPT !.pc = after_table(probe.order, probe.i, removed),
                                  !.i = @ + 1,
                                  !.removed = IF probe.i < Len(probe.order) THEN {}
                                              ELSE removed]
    /\ UNCHANGED <<db, schema_state, last>>

ApplyUnmanaged ==
    /\ probe.pc = "unmanaged"
    /\ \E t \in probe.removed :
         /\ schema_meta' = mark_table_unmanaged(schema_meta, t)
         /\ probe' = [probe EXCEPT !.removed = @ \ {t},
                                   !.pc = after_tables(probe.removed \ {t})]
    /\ UNCHANGED <<db, schema_state, last>>

ApplyWriteActive ==
    /\ probe.pc = "active"
    /\ schema_state' = write_active_schema(schema_state, probe.d)
    /\ probe' = [probe EXCEPT !.pc = "signature"]
    /\ UNCHANGED <<db, schema_meta, last>>

ApplyWriteSignature ==
    /\ probe.pc = "signature"
    /\ schema_state' = write_active_schema_signature(schema_state, DocSignature[probe.d])
    /\ probe' = [probe EXCEPT !.pc = "log"]
    /\ UNCHANGED <<db, schema_meta, last>>

\* log_schema_migration and the return of the result
ApplyLog ==
    /\ probe.pc = "log"
    /\ Return(Ok(0))
    /\ UNCHANGED <<db, schema_state, schema_meta>>

\* the server stops before the statement the call is at
ApplyStop ==
    /\ ~Ended(probe.pc)
    /\ probe' = [probe EXCEPT !.pc = "stopped"]
    /\ last' = Last("stop", Ok(0), NoInfo)
    /\ UNCHANGED <<db, schema_state, schema_meta>>

ApplyInserts == { <<"users", Named>>, <<"tasks", Title>>, <<"tasks", TitleFor("r1")>> }

ApplyNext ==
    \/ \E d \in DocNames : ApplyBegin(d)
    \/ ApplyEnsure
    \/ ApplyIndexes
    \/ ApplyMigrate
    \/ ApplyMeta
    \/ ApplyUnmanaged
    \/ ApplyWriteActive
    \/ ApplyWriteSignature
    \/ ApplyLog
    \/ ApplyStop
    \/ \E r \in ApplyInserts : Ended(probe.pc) /\ Insert(r[1], r[2])

SpecApply == InitApply /\ [][ApplyNext]_vars

(***************************************************************************)
(* A Mutation call step by step (executor.rs 131-152, 205-254).  In this   *)
(* specification probe is the call in progress: run is the state of        *)
(* execute_steps_with_transaction (run.db is what the call's transaction   *)
(* shows), ids the UUIDs its insert steps will generate.  db is the        *)
(* committed data.  Other requests are served between the calls.           *)
(***************************************************************************)
\* the step compile_handler makes of `ctx.db.get(table, id)`
FirstStep(into, table, id_value) ==
    Step("first", into,
         << <<"table", JStr(table)>>,
            <<"where", JObj(<< <<"_id", JObj(<< <<"$eq", id_value>> >>)>> >>)>> >>)

StepManifest ==
    [ m_insert_get |->
        Function("mutation", << <<"name", StringField>> >>,
          << InsertStep("u", "users", JObj(<< <<"name", JStr("$arg.name")>> >>)),
             FirstStep("__return_value", "users", JStr("$var.u")),
             ReturnStep(JStr("$var.__return_value")) >>),
      m_read_insert_read |->
        Function("mutation", <<>>,
          << GetStep("rows", "users"),
             InsertStep("u", "users", Named),
             GetStep("t", "users"),
             ReturnStep(JStr("$var.t")) >>),
      m_pair_get |->
        Function("mutation", <<>>,
          << InsertStep("u", "users", Named),
             InsertStep("rows", "tasks", JObj(<< <<"title", JStr("a")>>,
                                                 <<"user_id", JStr("$var.u")>> >>)),
             FirstStep("t", "tasks", JStr("$var.rows")),
             InsertStep("", "tasks", JObj(<< <<"title", JStr("$var.t.title")>>,
                                             <<"user_id", JStr("r6")>> >>)) >>) ]

StepCalls ==
    { <<"m_insert_get", << <<"name", JStr("x")>> >>>>, <<"m_insert_get", <<>>>>,
      <<"m_read_insert_read", <<>>>>, <<"m_pair_get", <<>>>> }

NoCall ==
    [f |-> "call", pc |-> "idle", endpoint |-> "", ids |-> <<>>, run |-> NewRun(EmptyDb, <<>>)]

InitSteps ==
    /\ db = EmptyDb
    /\ schema_state = NoSchemaState
    /\ schema_meta = NoMeta
    /\ last = Last("none", Ok(0), NoInfo)
    /\ probe = NoCall

\* the step the loop of execute_steps_with_transaction is at
AtStep == StepManifest[probe.endpoint].steps[probe.run.executed + 1]

\* a step that reads and writes through the pool
step_view_pool(D, T) == D

\* the data the repository calls of execute_step_with_transaction read and
\* write, given the committed data D and the call's transaction T: they are
\* handed the transaction
step_view(D, T) == T

\* execute_manifest_function up to pool.begin()
CallBegin(endpoint, args) ==
    /\ probe.pc = "idle"
    /\ TotalRows(db) + MaxInserts <= MaxRows
    /\ Len(FreshIds(db)) >= MaxInserts
    /\ LET validated_args == validate_args(StepManifest[endpoint].args, args) IN
       IF ~IsOk(validated_args)
         THEN /\ probe' = [NoCall EXCEPT !.endpoint = endpoint]
              /\ last' = Last("call", validated_args, [NoInfo EXCEPT !.fn = endpoint])
         ELSE /\ probe' = [NoCall EXCEPT !.pc = "steps", !.endpoint = endpoint,
                                         !.ids = FreshIds(db),
                                         !.run = NewRun(db, validated_args.value)]
              /\ UNCHANGED last
    /\ UNCHANGED <<db, schema_state, schema_meta>>

\* one turn of the loop of execute_steps_with_transaction; an error drops
\* the transaction
CallStep ==
    /\ probe.pc = "steps"
    /\ \E perm \in CallScans :
         LET run == run_step([probe.run EXCEPT !.db = step_view(db, @)], schema_state, AtStep,
                             probe.ids[Cardinality(probe.run.inserted) + 1], FALSE, perm)
         IN  IF ~IsOk(run.res)
               THEN /\ probe' = [probe EXCEPT !.pc = "idle", !.run = run]
                    /\ last' = Last("call", run.res,
                                    [NoInfo EXCEPT !.fn = probe.endpoint,
                                                   !.inserted = run.inserted])
             ELSE /\ probe' = [probe EXCEPT
                                 !.run = run,
                                 !.pc = IF run.returned
                                           \/ run.executed = Len(StepManifest[probe.endpoint].steps)
                                          THEN "commit" ELSE "steps"]
                  /\ UNCHANGED last
    /\ UNCHANGED <<db, schema_state, schema_meta>>

\* transaction.commit() and the return of last_result
CallCommit ==
    /\ probe.pc = "commit"
    /\ db' = probe.run.db
    /\ probe' = [probe EXCEPT !.pc = "idle"]
    /\ last' = Last("call", Ok(probe.run.last_result),
                    [NoInfo EXCEPT !.fn = probe.endpoint, !.inserted = probe.run.inserted,
                                   !.commits = 1])
    /\ UNCHANGED <<schema_state, schema_meta>>

StepsNext ==
    \/ probe.pc = "idle" /\ schema_state.active_schema = "none" /\ ApplySchema("D2")
    \/ probe.pc = "idle" /\ Insert("users", Named)
    \/ \E r \in StepCalls : CallBegin(r[1], r[2])
    \/ CallStep
    \/ CallCommit

SpecSteps == InitSteps /\ [][StepsNext]_vars

(***************************************************************************)
(* Two move_rows calls at once (relational_repo.rs 205-304), statement by  *)
(* statement.  db is the committed data.  In this specification probe      *)
(* holds the two calls: the rows each selected through the pool, the       *)
(* position of its loop, and what its transaction has written and not yet  *)
(* committed (ins, the rows inserted into the target; del, the _ids        *)
(* deleted from the source).  InnoDB makes an INSERT wait while another    *)
(* transaction holds an uncommitted row with the same primary key, a       *)
(* DELETE wait while another transaction holds the row, and ends a         *)
(* deadlock by failing one of the two statements.  The COUNT guard is a    *)
(* plain SELECT: it reads the transaction's snapshot (REPEATABLE READ) or  *)
(* the latest committed data (READ COMMITTED), with the transaction's own  *)
(* writes.                                                                 *)
(***************************************************************************)
Movers == { 1, 2 }
RaceFrom == "tasks"
RaceTo == "done"

NoTx ==
    [pc |-> "idle", options |-> MoveOptions(RaceTo, NoId, NoWhere, <<>>, <<>>),
     selected |-> <<>>, i |-> 0, prepared |-> <<>>, ins |-> {}, del |-> {},
     snapshot |-> <<>>, tried |-> {}, moved |-> 0]

\* D2 is active, with one user and two tasks of that user
RaceSetup ==
    LET applied == apply_schema(EmptyDb, NoSchemaState, NoMeta, "D2")
        user == insert(applied.db, applied.state, "users", Named, "r1")
        task == insert(user.db, applied.state, "tasks", TitleFor("r1"), "r2")
        other == insert(task.db, applied.state, "tasks", TitleB("r1"), "r3")
    IN  [db |-> other.db, state |-> applied.state, meta |-> applied.meta]

InitRace ==
    /\ db = RaceSetup.db
    /\ schema_state = RaceSetup.state
    /\ schema_meta = RaceSetup.meta
    /\ last = Last("none", Ok(0), NoInfo)
    /\ probe = [f |-> "race", tx |-> [m \in Movers |-> NoTx]]

\* the data D with the writes of transaction tx
Written(D, tx) ==
    [D EXCEPT ![tx.options.to_table].rows = @ \cup tx.ins,
              ![RaceFrom].rows = { r \in @ : r["_id"] \notin tx.del }]

InTransaction(tx) == tx.pc \in { "count", "insert", "delete", "commit" }

\* an INSERT of a row with this _id into the target never waits
insert_waits_never(txs, m, id) == FALSE

\* an INSERT of a row with this _id into the target has to wait: another
\* transaction holds an uncommitted row of that table with that primary key
insert_waits(txs, m, id) ==
    \E o \in Movers \ {m} :
       /\ InTransaction(txs[o])
       /\ txs[o].options.to_table = txs[m].options.to_table
       /\ \E r \in txs[o].ins : r["_id"] = id

\* a DELETE of the source row has to wait: another transaction has deleted
\* the row and not committed
delete_waits(txs, m, id) ==
    \E o \in Movers \ {m} : InTransaction(txs[o]) /\ id \in txs[o].del

\* the row the loop of call m is at, and its _id
RowAt(m) == probe.tx[m].selected[probe.tx[m].i].v
RowIdAt(m) == MapGet(RowAt(m), "_id").v

\* call m is at a statement that waits for the other transaction
Waiting(m) ==
    \/ probe.tx[m].pc = "insert" /\ insert_waits(probe.tx, m, RowIdAt(m))
    \/ probe.tx[m].pc = "delete" /\ delete_waits(probe.tx, m, RowIdAt(m))

\* call m returns the error: its transaction is dropped, which rolls it back
Fails(m, res, tried) ==
    /\ probe' = [probe EXCEPT !.tx[m] = [@ EXCEPT !.pc = "failed", !.ins = {}, !.del = {},
                                                  !.tried = tried]]
    /\ last' = Last("move", res, [NoInfo EXCEPT !.from = RaceFrom, !.moved = m])
    /\ UNCHANGED <<db, schema_state, schema_meta>>

\* the checks, the query through the pool and pool.begin()
MoveSelect(m, id, where_clause) ==
    /\ probe.tx[m].pc = "idle"
    /\ \E scan \in Perms(db[RaceFrom].rows) :
         LET options == MoveOptions(RaceTo, id, where_clause, <<>>, <<>>)
             selected_rows == move_selection(db, schema_state, RaceFrom, options, scan)
         IN  IF ~IsOk(selected_rows) THEN Fails(m, selected_rows, {})
             ELSE /\ probe' = [probe EXCEPT !.tx[m] =
                                 [NoTx EXCEPT !.options = options,
                                              !.selected = selected_rows.value,
                                              !.i = 1,
                                              !.pc = IF selected_rows.value = <<>>
                                                       THEN "returned" ELSE "count"]]
                  /\ UNCHANGED <<db, schema_state, schema_meta, last>>

\* the row mapping, prepare_payload, validate_foreign_keys (through the
\* pool) and the SELECT COUNT(1) guard of the row the loop is at
MoveGuard(m) ==
    /\ probe.tx[m].pc = "count"
    /\ \E base \in {db} \cup Range(probe.tx[m].snapshot) :
         LET tx == probe.tx[m]
             target_definition == target_of(schema_state, tx.options)
             prepared ==
               Try(map_row_to_target_payload(RowAt(m), target_definition,
                                             tx.options.field_map, tx.options.defaults),
                   LAMBDA mapped_payload :
               Try(prepare_payload(target_definition, JObj(mapped_payload), FALSE),
                   LAMBDA payload :
               Try(validate_foreign_keys(db, target_definition, payload),
                   LAMBDA checked : Ok(payload))))
             tried == tx.tried \cup { RowIdAt(m) }
         IN  IF ~IsOk(prepared) THEN Fails(m, prepared, tx.tried)
             ELSE IF RowIdAt(m) \in RowIdsOf(Written(base, tx), tx.options.to_table)
               THEN Fails(m, Err("Validation",
                                 "cannot move row: target table already contains this _id"),
                          tried)
             ELSE /\ probe' = [probe EXCEPT !.tx[m] =
                                 [@ EXCEPT !.pc = "insert",
                                           !.prepared = << prepared.value >>,
                                           !.snapshot = IF @ = <<>> THEN << db >> ELSE @,
                                           !.tried = tried]]
                  /\ UNCHANGED <<db, schema_state, schema_meta, last>>

\* insert_prepared_row on the transaction
MoveInsert(m) ==
    /\ probe.tx[m].pc = "insert"
    /\ ~insert_waits(probe.tx, m, RowIdAt(m))
    /\ LET tx == probe.tx[m]
           view == Written(db, tx)
           done == insert_prepared_row(view, tx.options.to_table, RowIdAt(m),
                                       IF MapHas(RowAt(m), "_created_at")
                                         THEN << MapGet(RowAt(m), "_created_at") >>
                                         ELSE <<>>,
                                       tx.prepared[1], schema_state.now)
       IN  IF ~IsOk(done.res) THEN Fails(m, done.res, tx.tried)
           ELSE /\ probe' = [probe EXCEPT !.tx[m] =
                               [@ EXCEPT !.pc = "delete",
                                         !.ins = @ \cup (done.db[tx.options.to_table].rows
                                                           \ view[tx.options.to_table].rows)]]
                /\ UNCHANGED <<db, schema_state, schema_meta, last>>

\* DELETE FROM the source WHERE _id = ?, and moved += 1
MoveDelete(m) ==
    /\ probe.tx[m].pc = "delete"
    /\ ~delete_waits(probe.tx, m, RowIdAt(m))
    /\ LET tx == probe.tx[m]
           done == SqlDelete(Written(db, tx), RaceFrom, { RowIdAt(m) })
       IN  IF ~IsOk(done.res) THEN Fails(m, done.res, tx.tried)
           ELSE /\ probe' = [probe EXCEPT !.tx[m] =
                               [@ EXCEPT !.pc = IF tx.i = Len(tx.selected)
                                                  THEN "commit" ELSE "count",
                                         !.del = @ \cup { RowIdAt(m) },
                                         !.i = @ + 1,
                                         !.moved = @ + 1]]
                /\ UNCHANGED <<db, schema_state, schema_meta, last>>

\* transaction.commit() and the return of the count
MoveCommit(m) ==
    /\ probe.tx[m].pc = "commit"
    /\ db' = Written(db, probe.tx[m])
    /\ probe' = [probe EXCEPT !.tx[m] = [@ EXCEPT !.pc = "committed"]]
    /\ last' = Last("move", Ok(probe.tx[m].moved),
                    [NoInfo EXCEPT !.from = RaceFrom, !.moved = probe.tx[m].moved])
    /\ UNCHANGED <<schema_state, schema_meta>>

\* both calls wait for each other: InnoDB fails the statement of one
MoveDeadlock(m) ==
    /\ \A o \in Movers : Waiting(o)
    /\ Fails(m, Err("Database", "deadlock found when trying to get lock"), probe.tx[m].tried)

RaceSelectors == { <<"r2", NoWhere>>, <<"r3", NoWhere>>, <<NoId, OfUser("r1")>> }

RaceNext ==
    \E m \in Movers :
       \/ \E s \in RaceSelectors : MoveSelect(m, s[1], s[2])
       \/ MoveGuard(m)
       \/ MoveInsert(m)
       \/ MoveDelete(m)
       \/ MoveCommit(m)
       \/ MoveDeadlock(m)

SpecRace == InitRace /\ [][RaceNext]_vars

(***************************************************************************)
(* The manifest compiler (functions/manifest.rs).  A handler body is the   *)
(* sequence of the statements split_top_level cuts at ';', each statement  *)
(* trimmed and given as the sequence of its lexemes: the keyword, the      *)
(* declared name, '=', 'await', the ctx parameter, the db method, the      *)
(* table of the string literal, and the words of an expression.  The       *)
(* regular expressions of compile_handler are read as tests on these       *)
(* lexemes.  An expression of the inputs is one word (a literal, args, a   *)
(* dotted path) with or without 'await' before it; object and array        *)
(* literals are not among the inputs.                                      *)
(***************************************************************************)
\* AppError::validation with a message that quotes a text of the source
Quoting(what, text) == Err("Validation", [what |-> what, text |-> text])

\* [A-Za-z_][A-Za-z0-9_]*
IsIdentifier(n) ==
    LET c == Chars(n) IN
    /\ Len(c) >= 1
    /\ c[1] \in Letters \cup {"_"}
    /\ \A i \in 2..Len(c) : c[i] \in Letters \cup Digits \cup {"_"}

\* parse_string_literal: [some, text]; the quote is a double quote, a single
\* quote or a backtick, and no input of the model holds a backtick
parse_string_literal(chars) ==
    IF /\ Len(chars) >= 2
       /\ chars[1] \in { "\"", "'" }
       /\ chars[Len(chars)] = chars[1]
      THEN [some |-> TRUE, text |-> SubSeq(chars, 2, Len(chars) - 1)]
      ELSE [some |-> FALSE, text |-> <<>>]

\* str::parse::<i64> of a text of digits
RECURSIVE parse_i64(_)
parse_i64(chars) ==
    IF chars = <<>> THEN 0
    ELSE parse_i64(SubSeq(chars, 1, Len(chars) - 1)) * 10
           + (CHOOSE d \in 0..9 : NatText(d) = << chars[Len(chars)] >>)

\* compile_expression as it would be if it did not look a name up among
\* the declared variables
RECURSIVE compile_expression_any(_, _, _)
compile_expression_any(expression, args_name, declared) ==
    IF expression # <<>> /\ expression[1] = "await"
      THEN compile_expression_any(Tail(expression), args_name, declared)
    ELSE IF Len(expression) # 1
      THEN Quoting("unsupported function expression", expression)
    ELSE LET expr == expression[1]
             literal == parse_string_literal(Chars(expr))
             path == strip_prefix(Chars(expr), Chars(args_name) \o <<".">>)
         IN  IF literal.some THEN Ok(JStr(NameOf(literal.text)))
             ELSE IF expr = args_name THEN Ok(JStr("$arg"))
             ELSE IF path.some THEN Ok(JStr("$arg." \o NameOf(path.rest)))
             ELSE Ok(JStr("$var." \o expr))

RECURSIVE compile_expression(_, _, _)
compile_expression(expression, args_name, declared) ==
    IF expression # <<>> /\ expression[1] = "await"
      THEN compile_expression(Tail(expression), args_name, declared)
    ELSE IF Len(expression) # 1
      THEN Quoting("unsupported function expression", expression)
    ELSE LET expr == expression[1]
             chars == Chars(expr)
             literal == parse_string_literal(chars)
             path == strip_prefix(chars, Chars(args_name) \o <<".">>)
         IN  IF expr = "true" THEN Ok(JBool(TRUE))
             ELSE IF expr = "false" THEN Ok(JBool(FALSE))
             ELSE IF expr \in { "null", "undefined" } THEN Ok(JNull)
             ELSE IF literal.some THEN Ok(JStr(NameOf(literal.text)))
             ELSE IF chars # <<>> /\ \A i \in 1..Len(chars) : chars[i] \in Digits
               THEN Ok(JNum(parse_i64(chars)))
             ELSE IF expr = args_name THEN Ok(JStr("$arg"))
             ELSE IF path.some THEN Ok(JStr("$arg." \o NameOf(path.rest)))
             ELSE IF expr \in declared THEN Ok(JStr("$var." \o expr))
             ELSE IF Len(split_dot(chars)) > 1 /\ NameOf(split_dot(chars)[1]) \in declared
               THEN Ok(JStr("$var." \o expr))
             ELSE Quoting("unsupported function expression", expression)

\* decl_re: (const|let) name = initializer
decl_re(statement) ==
    /\ Len(statement) >= 4
    /\ statement[1] \in { "const", "let" }
    /\ IsIdentifier(statement[2])
    /\ statement[3] = "="

\* read_re: await ctx.db.read("table").collect()
read_re(text, ctx_name) ==
    /\ Len(text) = 5
    /\ text[1] = "await" /\ text[2] = ctx_name /\ text[3] = "db.read" /\ text[5] = "collect"

\* insert_re: await ctx.db.insert("table", value)
insert_re(text, ctx_name) ==
    /\ Len(text) >= 5
    /\ text[1] = "await" /\ text[2] = ctx_name /\ text[3] = "db.insert"

\* get_re: await ctx.db.get("table", id)
get_re(text, ctx_name) ==
    /\ Len(text) >= 5
    /\ text[1] = "await" /\ text[2] = ctx_name /\ text[3] = "db.get"

\* get_no_await_re: ctx.db.get("table", id)
get_no_await_re(text, ctx_name) ==
    /\ Len(text) >= 4
    /\ text[1] = ctx_name /\ text[2] = "db.get"

\* the steps of a declaration
compile_declaration(statement, ctx_name, args_name, declared) ==
    LET name == statement[2]
        initializer == SubSeq(statement, 4, Len(statement))
    IN  IF read_re(initializer, ctx_name)
          THEN Ok(<< GetStep(name, initializer[4]) >>)
        ELSE IF insert_re(initializer, ctx_name)
          THEN Try(compile_expression(SubSeq(initializer, 5, Len(initializer)),
                                      args_name, declared),
                   LAMBDA value : Ok(<< InsertStep(name, initializer[4], value) >>))
        ELSE IF get_re(initializer, ctx_name)
          THEN Try(compile_expression(SubSeq(initializer, 5, Len(initializer)),
                                      args_name, declared),
                   LAMBDA id_value : Ok(<< FirstStep(name, initializer[4], id_value) >>))
        ELSE Try(compile_expression(initializer, args_name, declared),
                 LAMBDA value :
                   Ok(<< Step("setVar", "", << <<"name", JStr(name)>>,
                                               <<"value", value>> >>) >>))

\* the steps of a return statement
compile_return(statement, ctx_name, args_name, declared) ==
    LET return_expr == Tail(statement)
        no_await == get_no_await_re(return_expr, ctx_name) /\ ~get_re(return_expr, ctx_name)
        table == IF no_await THEN return_expr[3] ELSE return_expr[4]
        id_expr == SubSeq(return_expr, IF no_await THEN 4 ELSE 5, Len(return_expr))
    IN  IF return_expr = <<>> THEN Ok(<< ReturnStep(JNull) >>)
        ELSE IF get_re(return_expr, ctx_name) \/ get_no_await_re(return_expr, ctx_name)
          THEN Try(compile_expression(id_expr, args_name, declared),
                   LAMBDA id_value :
                     Ok(<< FirstStep("__return_value", table, id_value),
                           ReturnStep(JStr("$var.__return_value")) >>))
        ELSE Try(compile_expression(return_expr, args_name, declared),
                 LAMBDA value : Ok(<< ReturnStep(value) >>))

\* the loop over the statements of compile_handler, from statement i on
RECURSIVE compile_statements(_, _, _, _, _, _, _)
compile_statements(body, i, ctx_name, args_name, endpoint, declared, steps) ==
    IF i > Len(body) THEN Ok(steps)
    ELSE LET statement == body[i] IN
         IF statement = <<>> \/ statement[1] = "console.log("
           THEN compile_statements(body, i + 1, ctx_name, args_name, endpoint, declared, steps)
         ELSE IF decl_re(statement)
           THEN Try(compile_declaration(statement, ctx_name, args_name, declared),
                    LAMBDA emitted :
                      compile_statements(body, i + 1, ctx_name, args_name, endpoint,
                                         declared \cup { statement[2] }, steps \o emitted))
         ELSE IF statement[1] = "return"
           THEN Try(compile_return(statement, ctx_name, args_name, declared),
                    LAMBDA emitted : Ok(steps \o emitted))
         ELSE Quoting("contains unsupported statement", statement)

compile_handler(body, ctx_name, args_name, endpoint) ==
    Try(compile_statements(body, 1, ctx_name, args_name, endpoint, {}, <<>>),
        LAMBDA steps :
          IF steps = <<>> THEN Quoting("handler produced no executable steps", endpoint)
          ELSE Ok(steps))

MaxStatements == 3

Statements ==
    { <<>>,
      << "console.log(", "args.name" >>,
      << "const", "rows", "=", "await", "ctx", "db.read", "users", "collect" >>,
      << "const", "id", "=", "await", "ctx", "db.insert", "users", "args" >>,
      << "const", "u", "=", "await", "ctx", "db.get", "users", "id" >>,
      << "let", "t", "=", "args.name" >>,
      << "return" >>,
      << "return", "u" >>,
      << "return", "await", "ctx", "db.get", "users", "args.id" >>,
      << "await", "ctx", "db.insert", "users", "args" >>,
      << "throw", "id" >>,
      << "const", "1st", "=", "args" >>,
      << "const", "u", "=", "fetch", "id" >> }

Bodies == UNION { [1..n -> Statements] : n \in 0..MaxStatements }

InitHandler ==
    /\ db = EmptyDb
    /\ schema_state = NoSchemaState
    /\ schema_meta = NoMeta
    /\ last = Last("none", Ok(0), NoInfo)
    /\ \E body \in Bodies : probe = [f |-> "source", body |-> body]

CompileHandler ==
    /\ probe.f = "source"
    /\ probe' = [f |-> "compiled", body |-> probe.body,
                 result |-> compile_handler(probe.body, "ctx", "args", "m_insert_get")]
    /\ UNCHANGED <<db, schema_state, schema_meta, last>>

HandlerNext == CompileHandler

SpecHandler == InitHandler /\ [][HandlerNext]_vars

(***************************************************************************)
(* The loader of the function sources (manifest.rs 49-206).  A source      *)
(* directory is a function from the relative paths of its files to their   *)
(* texts; a text is the sequence of the export declarations export_re      *)
(* finds in it, each with its name, its helper, its args entries and the   *)
(* statements of its handler.  The directories of the inputs exist.        *)
(***************************************************************************)
\* str::split(c): the segments, at least one
RECURSIVE split_char(_, _)
split_char(chars, c) ==
    IF \A i \in 1..Len(chars) : chars[i] # c THEN <<chars>>
    ELSE LET i == CHOOSE j \in 1..Len(chars) :
                    chars[j] = c /\ \A k \in 1..(j - 1) : chars[k] # c
         IN  <<SubSeq(chars, 1, i - 1)>> \o split_char(SubSeq(chars, i + 1, Len(chars)), c)

\* str::ends_with
ends_with(chars, suffix) ==
    /\ Len(chars) >= Len(suffix)
    /\ SubSeq(chars, Len(chars) - Len(suffix) + 1, Len(chars)) = suffix

\* str::trim_end_matches: the suffix is removed as often as it is there
RECURSIVE trim_end_matches(_, _)
trim_end_matches(chars, suffix) ==
    IF suffix # <<>> /\ ends_with(chars, suffix)
      THEN trim_end_matches(SubSeq(chars, 1, Len(chars) - Len(suffix)), suffix)
      ELSE chars

\* str::replace of one character by another
replace(chars, from, to) == [i \in 1..Len(chars) |-> IF chars[i] = from THEN to ELSE chars[i]]

\* Ord of PathBuf: the components are compared one after another
RECURSIVE PathLess(_, _)
PathLess(a, b) ==
    IF a = <<>> THEN b # <<>>
    ELSE IF b = <<>> THEN FALSE
    ELSE IF a[1] = b[1] THEN PathLess(Tail(a), Tail(b))
    ELSE StrLess(a[1], b[1], 1)

SkippedDirectories == { "node_modules", ".generated", "dist" }

\* collect_ts_files: the paths of the .ts files that are no .d.ts files and
\* lie in no skipped directory, sorted
collect_ts_files(directory) ==
    LET kept == { p \in DOMAIN directory :
                    LET parts == split_char(Chars(p), "/")
                    IN  /\ \A i \in 1..(Len(parts) - 1) :
                              NameOf(parts[i]) \notin SkippedDirectories
                        /\ ends_with(parts[Len(parts)], Chars(".ts"))
                        /\ ~ends_with(parts[Len(parts)], Chars(".d.ts")) }
    IN  CHOOSE files \in Perms(kept) :
          \A i \in 1..(Len(files) - 1) :
             PathLess(split_char(Chars(files[i]), "/"), split_char(Chars(files[i + 1]), "/"))

\* the module prefix of a file of the directory
module_prefix(relative) ==
    LET trimmed == trim_end_matches(Chars(relative), Chars(".ts"))
        module_key == IF ends_with(trimmed, Chars("/index"))
                        THEN trim_end_matches(trimmed, Chars("/index"))
                        ELSE trimmed
    IN  replace(module_key, "/", ".")

\* the endpoint of an export of a file
endpoint_of(relative, export_name) ==
    IF module_prefix(relative) = <<>> THEN export_name
    ELSE NameOf(module_prefix(relative) \o <<".">> \o Chars(export_name))

parse_field_definition(expression) ==
    CASE expression = "value.string()" -> Ok(StringField)
      [] expression = "value.number()" -> Ok([StringField EXCEPT !.field_type = "number"])
      [] expression = "value.boolean()" -> Ok(BooleanField)
      [] OTHER -> Quoting("has invalid args: unsupported validator", expression)

\* parse_args over the entries of the args block, from entry i on
RECURSIVE parse_args(_, _, _)
parse_args(entries, i, args) ==
    IF i > Len(entries) THEN Ok(args)
    ELSE Try(parse_field_definition(entries[i][2]),
             LAMBDA value : parse_args(entries, i + 1, btree_insert(args, entries[i][1], value)))

parse_function_options(options, kind, endpoint) ==
    Try(parse_args(options.args, 1, <<>>), LAMBDA args :
    Try(compile_handler(options.body, options.ctx_name, options.args_name, endpoint),
        LAMBDA steps : Ok(Function(kind, args, steps))))

\* the loop over the exports of parse_file_exports, from export i on
RECURSIVE parse_exports(_, _, _, _)
parse_exports(relative, exports, i, out) ==
    IF i > Len(exports) THEN Ok(out)
    ELSE LET endpoint == endpoint_of(relative, exports[i].export_name)
             kind == IF exports[i].helper = "readFunction" THEN "query" ELSE "mutation"
         IN  Try(parse_function_options(exports[i], kind, endpoint),
                 LAMBDA function :
                   parse_exports(relative, exports, i + 1,
                                 btree_insert(out, endpoint, function)))

parse_file_exports(relative, exports) == parse_exports(relative, exports, 1, <<>>)

\* the loop over the endpoints of one file in load_functions_from_source
RECURSIVE load_parsed(_, _, _)
load_parsed(parsed, i, functions) ==
    IF i > Len(parsed) THEN Ok(functions)
    ELSE IF MapHas(functions, parsed[i][1])
      THEN Quoting("duplicate function endpoint", parsed[i][1])
    ELSE load_parsed(parsed, i + 1, btree_insert(functions, parsed[i][1], parsed[i][2]))

\* the loop over the files of load_functions_from_source
RECURSIVE load_files(_, _, _, _)
load_files(directory, files, i, functions) ==
    IF i > Len(files) THEN Ok(functions)
    ELSE Try(parse_file_exports(files[i], directory[files[i]]), LAMBDA parsed :
         Try(load_parsed(parsed, 1, functions), LAMBDA loaded :
             load_files(directory, files, i + 1, loaded)))

load_functions_from_source(directory) ==
    Try(load_files(directory, collect_ts_files(directory), 1, <<>>),
        LAMBDA functions : Ok([version |-> 1, functions |-> functions]))

Export(export_name, helper, args, body) ==
    [export_name |-> export_name, helper |-> helper, args |-> args,
     ctx_name |-> "ctx", args_name |-> "args", body |-> body]

Exports ==
    { Export("f", "readFunction", << <<"name", "value.string()">> >>,
             << << "const", "rows", "=", "await", "ctx", "db.read", "users", "collect" >>,
                << "return", "rows" >> >>),
      Export("f", "writeFunction", <<>>,
             << << "const", "id", "=", "await", "ctx", "db.insert", "users", "args" >>,
                << "return", "await", "ctx", "db.get", "users", "id" >> >>),
      Export("g", "writeFunction", << <<"name", "value.object()">> >>,
             << << "return" >> >>) }

MaxExports == 2
MaxFiles == 2

SourcePaths ==
    { "a.ts", "a/index.ts", "a/b.ts", "a.b.ts", "a.d.ts", "dist/a.ts" }

SourceTexts == UNION { [1..n -> Exports] : n \in 0..MaxExports }

Directories ==
    UNION { [paths -> SourceTexts] :
              paths \in { P \in SUBSET SourcePaths : Cardinality(P) <= MaxFiles } }

InitLoad ==
    /\ db = EmptyDb
    /\ schema_state = NoSchemaState
    /\ schema_meta = NoMeta
    /\ last = Last("none", Ok(0), NoInfo)
    /\ \E directory \in Directories : probe = [f |-> "sources", directory |-> directory]

LoadFunctions ==
    /\ probe.f = "sources"
    /\ probe' = [f |-> "loaded", directory |-> probe.directory,
                 result |-> load_functions_from_source(probe.directory)]
    /\ UNCHANGED <<db, schema_state, schema_meta, last>>

LoadNext == LoadFunctions

SpecLoad == InitLoad /\ [][LoadNext]_vars

(***************************************************************************)
(* execute_manifest_function in two parts (executor.rs 14-54): the lookup  *)
(* of the endpoint and validate_args, and from there the steps, for a      *)
(* Mutation function in a transaction that pool.begin() opens.  In this    *)
(* specification probe holds the call: its endpoint and args, whether a    *)
(* transaction was opened for it and how many steps it executed.           *)
(***************************************************************************)
ArgsManifest ==
    [ q_named |-> Function("query",
                    << <<"name", StringField>>, <<"note", OptionalField(StringField)>> >>,
                    << GetStep("rows", "users"), ReturnStep(JStr("$var.rows")) >>),
      m_named |-> Function("mutation",
                    << <<"name", StringField>>, <<"ok", BooleanField>> >>,
                    << InsertStep("u", "users", JObj(<< <<"name", JStr("$arg.name")>> >>)),
                       ReturnStep(JStr("$var.u")) >>) ]

\* the args of the calls: every choice of a value, or of none, for name,
\* for the second declared arg and for an arg no function declares
NameValues == { Absent, JStr("x"), JNum(1) }
ArgValues == { Absent, JStr("x"), JBool(TRUE), JNull }

ArgsOf(second, name, value, extra) ==
    SelectSeq(<< <<"name", name>>, <<second, value>>, <<"title", extra>> >>,
              LAMBDA entry : entry[2] # Absent)

ArgCalls ==
    { <<"q_named", ArgsOf("note", n, v, e)>> : n \in NameValues, v \in ArgValues,
                                               e \in { Absent, JStr("x") } }
      \cup { <<"m_named", ArgsOf("ok", n, v, e)>> : n \in NameValues, v \in ArgValues,
                                                     e \in { Absent, JStr("x") } }

NoArgsCall ==
    [f |-> "args", pc |-> "idle", endpoint |-> "", args |-> <<>>, validated |-> <<>>,
     began |-> FALSE, executed |-> 0]

InitArgs ==
    /\ db = EmptyDb
    /\ schema_state = NoSchemaState
    /\ schema_meta = NoMeta
    /\ last = Last("none", Ok(0), NoInfo)
    /\ probe = NoArgsCall

\* the lookup of the function and validate_args
CallValidate(endpoint, args) ==
    /\ probe.pc = "idle"
    /\ TotalRows(db) + MaxInserts <= MaxRows
    /\ Len(FreshIds(db)) >= MaxInserts
    /\ LET validated_args == validate_args(ArgsManifest[endpoint].args, args) IN
       IF ~IsOk(validated_args)
         THEN /\ probe' = [NoArgsCall EXCEPT !.endpoint = endpoint, !.args = args]
              /\ last' = Last("call", validated_args, [NoInfo EXCEPT !.fn = endpoint])
         ELSE /\ probe' = [NoArgsCall EXCEPT !.pc = "validated", !.endpoint = endpoint,
                                             !.args = args,
                                             !.validated = validated_args.value]
              /\ UNCHANGED last
    /\ UNCHANGED <<db, schema_state, schema_meta>>

\* the steps of the function: for a Query function on the pool, for a
\* Mutation function between pool.begin() and the commit or rollback
CallRun ==
    /\ probe.pc = "validated"
    /\ \E perm \in CallScans :
         LET function == ArgsManifest[probe.endpoint]
             done == IF function.kind = "query"
                       THEN With(execute_steps_without_transaction(
                                   db, schema_state, function, probe.validated, TRUE,
                                   FreshIds(db), perm),
                                 LAMBDA run : CallOut(IF IsOk(run.res) THEN Ok(run.last_result)
                                                      ELSE run.res, run.db, run, 0))
                     ELSE end_transaction(db, execute_steps_with_transaction(
                                                db, schema_state, function, probe.validated,
                                                FreshIds(db), perm))
         IN  /\ db' = done.db
             /\ probe' = [probe EXCEPT !.pc = "idle",
                                       !.began = function.kind = "mutation",
                                       !.executed = done.executed]
             /\ last' = Last("call", done.res,
                             [NoInfo EXCEPT !.fn = probe.endpoint,
                                            !.inserted = done.inserted,
                                            !.commits = done.commits])
    /\ UNCHANGED <<schema_state, schema_meta>>

ArgsNext ==
    \/ probe.pc = "idle" /\ schema_state.active_schema = "none" /\ ApplySchema("D2")
    \/ probe.pc = "idle" /\ Insert("users", Named)
    \/ \E r \in ArgCalls : CallValidate(r[1], r[2])
    \/ CallRun

SpecArgs == InitArgs /\ [][ArgsNext]_vars

(***************************************************************************)
(* Documents that break a rule of the schema document, applied between     *)
(* applies of D1 and D2 and inserts.  probe names the document the last    *)
(* apply_schema was called with.                                           *)
(***************************************************************************)
\* POST /v1/admin/schema/apply, with the document it was called with
ApplyDocument(d) ==
    LET done == apply_schema(db, schema_state, schema_meta, d) IN
    /\ db' = done.db
    /\ schema_state' = done.state
    /\ schema_meta' = done.meta
    /\ last' = Last("apply", done.res, NoInfo)
    /\ probe' = [f |-> "applied", d |-> d]

InvalidNext ==
    \/ \E d \in DOMAIN InvalidDocs \cup {"D1", "D2"} : ApplyDocument(d)
    \/ \E r \in { <<"users", Named>>, <<"tasks", Title>> } : InsertNow(r[1], r[2])

SpecInvalid == Init /\ [][InvalidNext]_vars

(***************************************************************************)
(* Tables that a later document leaves out.  D1, D2 and D4 are applied in  *)
(* any order between requests; probe tells what the last request was: the  *)
(* tables it named and whether its selector was well formed.               *)
(***************************************************************************)
Request(op, tables, well_formed) ==
    [f |-> "request", op |-> op, tables |-> tables, well_formed |-> well_formed]

\* exactly one of id and where
OneSelector(id, where_clause) == (id # NoId) # (where_clause # NoWhere)

RequestInsert(table_name, value) ==
    /\ TotalRows(db) < MaxRows
    /\ FreshIds(db) # <<>>
    /\ LET done == insert(db, schema_state, table_name, value, FreshIds(db)[1]) IN
       /\ db' = done.db
       /\ last' = Last("insert", done.res, NoInfo)
    /\ probe' = Request("insert", {table_name}, TRUE)
    /\ UNCHANGED <<schema_state, schema_meta>>

RequestUpdate(table_name, id, where_clause, value) ==
    /\ LET done == update(db, schema_state, table_name, id, where_clause, value) IN
       /\ db' = done.db
       /\ last' = Last("update", done.res, NoInfo)
    /\ probe' = Request("update", {table_name}, OneSelector(id, where_clause))
    /\ UNCHANGED <<schema_state, schema_meta>>

RequestDelete(table_name, id, where_clause) ==
    /\ LET done == delete(db, schema_state, table_name, id, where_clause) IN
       /\ db' = done.db
       /\ last' = Last("delete", done.res, NoInfo)
    /\ probe' = Request("delete", {table_name}, OneSelector(id, where_clause))
    /\ UNCHANGED <<schema_state, schema_meta>>

RequestMove(from_table, to_table, id, where_clause) ==
    \E scan \in Perms(db[from_table].rows) :
       LET options == MoveOptions(to_table, id, where_clause, <<>>, <<>>)
           done == move_rows(db, schema_state, from_table, options, scan)
       IN  /\ db' = done.db
           /\ last' = Last("move", done.res, NoInfo)
           /\ probe' = Request("move", {from_table, to_table},
                               OneSelector(id, where_clause))
           /\ UNCHANGED <<schema_state, schema_meta>>

RequestQuery(table_name, where_clause) ==
    \E scan \in Perms(db[table_name].rows) :
       /\ last' = Last("query",
                       query(db, schema_state, table_name,
                             QueryOptions(where_clause, <<>>, <<>>, 0), scan),
                       NoInfo)
       /\ probe' = Request("query", {table_name}, TRUE)
       /\ UNCHANGED <<db, schema_state, schema_meta>>

UnmanagedDocs == { "D1", "D2", "D4" }
UnmanagedInserts ==
    { <<"users", Named>>, <<"tasks", Title>>, <<"tasks", TitleFor("r1")>>,
      <<"done", TitleFor("r1")>> }
UnmanagedUpdates ==
    { <<"done", "r2", NoWhere, TitleFor("r1")>>, <<"done", NoId, NoWhere, Title>>,
      <<"tasks", NoId, Title, TitleFor("r1")>> }
UnmanagedDeletes ==
    { <<"done", NoId, Title>>, <<"tasks", "r2", NoWhere>>, <<"tasks", "r2", Title>> }
UnmanagedMoves ==
    { <<"tasks", "done", NoId, Title>>, <<"done", "tasks", "r2", NoWhere>> }
UnmanagedQueries == { <<"done", NoWhere>>, <<"tasks", Title>> }

UnmanagedNext ==
    \/ \E d \in UnmanagedDocs : ApplyDocument(d)
    \/ \E r \in UnmanagedInserts : RequestInsert(r[1], r[2])
    \/ \E r \in UnmanagedUpdates : RequestUpdate(r[1], r[2], r[3], r[4])
    \/ \E r \in UnmanagedDeletes : RequestDelete(r[1], r[2], r[3])
    \/ \E r \in UnmanagedMoves : RequestMove(r[1], r[2], r[3], r[4])
    \/ \E r \in UnmanagedQueries : RequestQuery(r[1], r[2])

SpecUnmanaged == Init /\ [][UnmanagedNext]_vars

(***************************************************************************)
(* The apply order of documents whose tables refer to each other in every  *)
(* way: each of up to three tables holds Id fields of any set of the       *)
(* document's tables, itself included, optional or not.                    *)
(***************************************************************************)
OrderTables == <<"done", "tasks", "users">>
RefName == [done |-> "ref_done", tasks |-> "ref_tasks", users |-> "ref_users"]

\* the document with the tables of present, where table t has an Id field
\* of every table of refs[t]
OrderDocument(present, refs, optional) ==
    LET names == SelectSeq(OrderTables, LAMBDA t : t \in present)
        fields(t) ==
          LET targets == SelectSeq(OrderTables, LAMBDA b : b \in refs[t])
          IN  [i \in 1..Len(targets) |->
                 <<RefName[targets[i]],
                   IF optional THEN OptionalField(IdField(targets[i]))
                   ELSE IdField(targets[i])>>]
              \o << <<"title", StringField>> >>
    IN  Document([i \in 1..Len(names) |-> <<names[i], Table(fields(names[i]), <<>>)>>],
                 <<>>)

InitOrder ==
    /\ db = EmptyDb
    /\ schema_state = NoSchemaState
    /\ schema_meta = NoMeta
    /\ last = Last("none", Ok(0), NoInfo)
    /\ \E present \in SUBSET Range(OrderTables) \ {{}} :
         \E refs \in [present -> SUBSET present] :
            \E optional \in BOOLEAN :
               probe = [f |-> "order", pc |-> "drawn",
                        schema |-> OrderDocument(present, refs, optional),
                        result |-> Ok(<<>>)]

\* apply_schema up to the order it applies the tables in
ResolveOrder ==
    /\ probe.pc = "drawn"
    /\ probe' = [probe EXCEPT
                   !.pc = "resolved",
                   !.result = Try(validate_schema_document(probe.schema),
                                  LAMBDA valid : resolve_table_apply_order(probe.schema))]
    /\ last' = Last("order", probe'.result, NoInfo)
    /\ UNCHANGED <<db, schema_state, schema_meta>>

OrderNext == ResolveOrder

SpecOrder == InitOrder /\ [][OrderNext]_vars

(***************************************************************************)
(* The step loop of Query and Mutation calls, one turn at a time           *)
(* (executor.rs 96-153).  In this specification probe is the call in       *)
(* progress: run is the state of the loop (for a Mutation run.db is what   *)
(* its transaction shows), result what the call handed back.               *)
(***************************************************************************)
ReturnManifest ==
    [ q_first_return |->
        Function("query", <<>>,
          << GetStep("rows", "users"),
             ReturnStep(JStr("$var.rows")),
             GetStep("t", "tasks"),
             ReturnStep(JStr("a")) >>),
      q_no_return |->
        Function("query", <<>>,
          << GetStep("rows", "users"),
             Step("first", "", << <<"table", JStr("users")>> >>) >>),
      q_set |->
        Function("query", << <<"name", StringField>> >>,
          << Step("setVar", "", << <<"name", JStr("t")>>,
                                   <<"value", JStr("$arg.name")>> >>),
             ReturnStep(JStr("$var.t")) >>),
      m_return_mid |->
        Function("mutation", <<>>,
          << InsertStep("u", "users", Named),
             ReturnStep(JStr("$var.u")),
             InsertStep("", "users", Named) >>),
      m_no_return |->
        Function("mutation", <<>>,
          << InsertStep("", "users", Named),
             GetStep("", "users") >>),
      m_set_into |->
        Function("mutation", <<>>,
          << Step("setVar", "u", << <<"name", JStr("t")>>, <<"value", JStr("a")>> >>),
             InsertStep("rows", "users", JObj(<< <<"name", JStr("$var.u")>> >>)) >>) ]

ReturnCalls ==
    { <<e, <<>>>> : e \in DOMAIN ReturnManifest \ {"q_set"} }
      \cup { <<"q_set", << <<"name", JStr("x")>> >>>> }

NoLoop ==
    [f |-> "loop", pc |-> "idle", endpoint |-> "", ids |-> <<>>,
     run |-> NewRun(EmptyDb, <<>>), result |-> <<>>]

InitReturn ==
    /\ db = EmptyDb
    /\ schema_state = NoSchemaState
    /\ schema_meta = NoMeta
    /\ last = Last("none", Ok(0), NoInfo)
    /\ probe = NoLoop

\* the loop as it would be if a return step did not end it
loop_ends_after_last(run, steps) == run.executed = Len(steps)

\* `if step.op == "return" { return Ok(last_result) }` and the end of the
\* for loop
loop_ends(run, steps) == run.returned \/ run.executed = Len(steps)

\* execute_manifest_function up to the loop over the steps
LoopBegin(endpoint, args) ==
    /\ probe.pc = "idle"
    /\ TotalRows(db) + MaxInserts <= MaxRows
    /\ Len(FreshIds(db)) >= MaxInserts
    /\ LET validated_args == validate_args(ReturnManifest[endpoint].args, args) IN
       IF ~IsOk(validated_args)
         THEN /\ probe' = [NoLoop EXCEPT !.endpoint = endpoint]
              /\ last' = Last("call", validated_args, [NoInfo EXCEPT !.fn = endpoint])
         ELSE /\ probe' = [NoLoop EXCEPT !.pc = "steps", !.endpoint = endpoint,
                                         !.ids = FreshIds(db),
                                         !.run = NewRun(db, validated_args.value)]
              /\ UNCHANGED last
    /\ UNCHANGED <<db, schema_state, schema_meta>>

\* one turn of the loop of execute_steps_without_transaction (Query: the
\* write check, then the step on the pool's data) or of
\* execute_steps_with_transaction (Mutation: the step on the transaction)
LoopStep ==
    /\ probe.pc = "steps"
    /\ \E perm \in CallScans :
         LET function == ReturnManifest[probe.endpoint]
             read_only == function.kind = "query"
             step == function.steps[probe.run.executed + 1]
             run == IF read_only /\ is_write_step(step)
                      THEN [probe.run EXCEPT !.res = Err("Validation", QueryInsertRefused)]
                      ELSE run_step([probe.run EXCEPT
                                       !.db = IF read_only THEN db ELSE @],
                                    schema_state, step,
                                    probe.ids[Cardinality(probe.run.inserted) + 1],
                                    read_only, perm)
         IN  IF ~IsOk(run.res)
               THEN /\ probe' = [probe EXCEPT !.pc = "idle", !.run = run]
                    /\ last' = Last("call", run.res, [NoInfo EXCEPT !.fn = probe.endpoint])
             ELSE /\ probe' = [probe EXCEPT
                                 !.run = run,
                                 !.pc = IF loop_ends(run, function.steps)
                                          THEN "return" ELSE "steps"]
                  /\ UNCHANGED last
    /\ UNCHANGED <<db, schema_state, schema_meta>>

\* Ok(last_result): a Query hands it back, a Mutation commits first
LoopReturn ==
    /\ probe.pc = "return"
    /\ db' = IF ReturnManifest[probe.endpoint].kind = "mutation" THEN probe.run.db ELSE db
    /\ probe' = [probe EXCEPT !.pc = "idle", !.result = <<probe.run.last_result>>]
    /\ last' = Last("call", Ok(probe.run.last_result),
                    [NoInfo EXCEPT !.fn = probe.endpoint, !.inserted = probe.run.inserted])
    /\ UNCHANGED <<schema_state, schema_meta>>

ReturnNext ==
    \/ probe.pc = "idle" /\ schema_state.active_schema = "none" /\ ApplySchema("D2")
    \/ probe.pc = "idle" /\ Insert("users", Named)
    \/ \E r \in ReturnCalls : LoopBegin(r[1], r[2])
    \/ LoopStep
    \/ LoopReturn

SpecReturn == InitReturn /\ [][ReturnNext]_vars

(***************************************************************************)
(* An optional field that comes with the table (D5 on an empty database)   *)
(* or is added to it later (D5 over D1), and inserts that give, omit or    *)
(* null it.                                                                *)
(***************************************************************************)
Noted == JObj(<< <<"name", JStr("x")>>, <<"note", JStr("n")>> >>)
NotedNull == JObj(<< <<"name", JStr("x")>>, <<"note", JNull>> >>)

NullableDocs == { "D1", "D5" }
NullableInserts ==
    { <<"users", Named>>, <<"users", Noted>>, <<"users", NotedNull>>, <<"tasks", Title>> }

NullableNext ==
    \/ \E d \in NullableDocs : ApplyDocument(d)
    \/ \E r \in NullableInserts : RequestInsert(r[1], r[2])

SpecNullable == Init /\ [][NullableNext]_vars

(***************************************************************************)
(* Applying the document that is active already: D1, D2 and D3 (D2 with a  *)
(* rule that copies tasks into done), in any order between inserts.        *)
(***************************************************************************)
ReapplyInserts ==
    { <<"users", Named>>, <<"tasks", Title>>, <<"tasks", TitleFor("r1")>> }

ReapplyNext ==
    \/ \E d \in DocNames : ApplyDocument(d)
    \/ \E r \in ReapplyInserts : RequestInsert(r[1], r[2])

SpecReapply == Init /\ [][ReapplyNext]_vars

(***************************************************************************)
(* VectorRepository::query (vector/src/repository.rs 348-453) and          *)
(* cosine_similarity (vector/src/scoring.rs).  In this specification       *)
(* probe holds the repository, the rows of its tables and the last query.  *)
(* A row of vector_items carries its decoded embedding (vector) in place   *)
(* of the blob and the square of its stored norm; rows written by          *)
(* add_items have embedding_dim = the length of the vector.  An f32 is     *)
(* Fin(n), a small whole number, or Infinite; a similarity is the f64      *)
(* s/den with s = sign(dot) * dot^2 and den = |query|^2 * |item|^2, which  *)
(* orders as dot / (|query| * |item|) does, or NaN.                        *)
(***************************************************************************)
Fin(n) == [k |-> "fin", v |-> n]
Infinite == [k |-> "inf", v |-> 0]

Similarity(s, den) == [k |-> "num", s |-> s, den |-> den]
NaNSimilarity == [k |-> "nan", s |-> 0, den |-> 1]

RECURSIVE SumOf(_, _)
SumOf(terms, i) == IF i > Len(terms) THEN 0 ELSE terms[i] + SumOf(terms, i + 1)

\* embedding_norm as add_items stores it, squared
norm_squared(vector) == SumOf([i \in 1..Len(vector) |-> vector[i].v * vector[i].v], 1)

\* cosine_similarity(query, item, item_norm).  An infinite component of the
\* query makes query_squared infinite and dot infinite or NaN, so the
\* quotient is NaN.
cosine_similarity(query_embedding, item, item_norm_squared) ==
    IF Len(query_embedding) # Len(item) \/ query_embedding = <<>> \/ item_norm_squared = 0
      THEN Similarity(0, 1)
    ELSE IF \E i \in 1..Len(query_embedding) : query_embedding[i].k = "inf" THEN NaNSimilarity
    ELSE LET dot == SumOf([i \in 1..Len(query_embedding) |-> query_embedding[i].v * item[i].v], 1)
             query_squared == norm_squared(query_embedding)
         IN  IF query_squared = 0 THEN Similarity(0, 1)
             ELSE Similarity((IF dot < 0 THEN -1 ELSE 1) * dot * dot,
                             query_squared * item_norm_squared)

\* f64::partial_cmp: "None" when either side is NaN
partial_cmp(a, b) ==
    IF a.k = "nan" \/ b.k = "nan" THEN "None"
    ELSE IF a.s * b.den < b.s * a.den THEN "Less"
    ELSE IF a.s * b.den > b.s * a.den THEN "Greater"
    ELSE "Equal"

\* the comparator of scored.sort_by as it would be if it sorted ascending
by_similarity_ascending(left, right) ==
    LET ordering == partial_cmp(left.similarity, right.similarity)
    IN  IF ordering = "None" THEN "Equal" ELSE ordering

\* the comparator of scored.sort_by:
\* right.1.partial_cmp(&left.1).unwrap_or(Ordering::Equal)
by_similarity(left, right) ==
    LET ordering == partial_cmp(right.similarity, left.similarity)
    IN  IF ordering = "None" THEN "Equal" ELSE ordering

\* Vec::sort_by, a stable sort
RECURSIVE sort_by(_, _, _)
sort_by(scored, i, sorted) ==
    IF i > Len(scored) THEN sorted
    ELSE LET x == scored[i]
             before == { p \in 1..Len(sorted) : by_similarity(x, sorted[p]) = "Less" }
             at == IF before = {} THEN Len(sorted) + 1
                   ELSE CHOOSE p \in before : \A q \in before : p <= q
         IN  sort_by(scored, i + 1,
                     SubSeq(sorted, 1, at - 1) \o <<x>> \o SubSeq(sorted, at, Len(sorted)))

\* 1.0 - similarity
distance(similarity) == [one_minus |-> similarity]

\* the loop body of query for one query embedding: the scored candidates,
\* sorted and truncated
top_candidates(candidates, query_embedding, top_k) ==
    LET same == SelectSeq(candidates,
                          LAMBDA c : Len(c.vector) = Len(query_embedding))
        scored == [i \in 1..Len(same) |->
                     [candidate |-> same[i],
                      similarity |-> cosine_similarity(query_embedding, same[i].vector,
                                                       same[i].norm_squared)]]
        sorted == sort_by(scored, 1, <<>>)
    IN  SubSeq(sorted, 1, Min(top_k, Len(sorted)))

\* query: Ok(VectorQueryResult) or the error.  scan is the order in which
\* MySQL yields the rows of vector_items (the SELECT has no ORDER BY).
vector_query(S, max_dimension, collection_name, query_embeddings, n_results, scan) ==
    IF query_embeddings = <<>>
      THEN Err("Validation", "query_embeddings cannot be empty")
    ELSE
      Try(FirstErr([i \in 1..Len(query_embeddings) |->
                      validate_embedding(query_embeddings[i], max_dimension)]),
          LAMBDA valid :
      With({ c \in S.collections : c.name = collection_name }, LAMBDA found :
        IF found = {} THEN Err("NotFound", "collection not found")
        ELSE
          LET collection_id == (CHOOSE c \in found : TRUE).id
              candidates == SelectSeq(scan, LAMBDA row : row.collection_id = collection_id)
              top_k == IF n_results > 1 THEN n_results ELSE 1
              top(q) == top_candidates(candidates, query_embeddings[q], top_k)
              column(F(_)) ==
                [q \in 1..Len(query_embeddings) |->
                   [i \in 1..Len(top(q)) |-> F(top(q)[i])]]
          IN  Ok([ids |-> column(LAMBDA e : e.candidate.id),
                  documents |-> column(LAMBDA e : e.candidate.document),
                  metadatas |-> column(LAMBDA e : e.candidate.metadata),
                  distances |-> column(LAMBDA e : distance(e.similarity))])))

\* the rows of vector_items: i1 and i2 in collection c1, i3 in c1 or c2
StoredVectors ==
    { <<Fin(1)>>, <<Fin(1), Fin(0)>>, <<Fin(0), Fin(1)>>, <<Fin(2), Fin(0)>>,
      <<Fin(-1), Fin(1)>>, <<Fin(0), Fin(0)>> }
OtherVectors == { <<Fin(1)>>, <<Fin(1), Fin(0)>>, <<Fin(1), Fin(1)>> }

StoredItem(id, collection_id, vector, document, metadata) ==
    [id |-> id, collection_id |-> collection_id, vector |-> vector,
     norm_squared |-> norm_squared(vector), document |-> document, metadata |-> metadata]

QueryStores ==
    { [collections |-> { [id |-> "k1", name |-> "c1"], [id |-> "k2", name |-> "c2"] },
       vector_items |->
         { StoredItem("i1", "k1", v1, <<"d1">>, <<>>),
           StoredItem("i2", "k1", v2, <<>>, <<JStr("a")>>),
           StoredItem("i3", k, v3, <<"d3">>, <<JStr("b")>>) }] :
      v1 \in StoredVectors, v2 \in StoredVectors, v3 \in OtherVectors, k \in {"k1", "k2"} }

\* the query embeddings a client sends, and how many results it asks for
QueryVectors ==
    { <<Fin(1)>>, <<Fin(1), Fin(0)>>, <<Fin(1), Fin(1)>>, <<Infinite, Fin(0)>>,
      <<Fin(1), Fin(0), Fin(0)>> }
QueryBatches == { <<>> } \cup { <<a>> : a \in QueryVectors }
                  \cup { <<a, b>> : a \in {<<Fin(1), Fin(1)>>, <<Infinite, Fin(0)>>},
                                    b \in QueryVectors }
ResultCounts == { 0, 1, 2 }

InitQuery ==
    /\ db = EmptyDb
    /\ schema_state = NoSchemaState
    /\ schema_meta = NoMeta
    /\ last = Last("none", Ok(0), NoInfo)
    /\ probe \in { [f |-> "query", pc |-> "stored", max_dimension |-> 2, store |-> S,
                    collection |-> "", request |-> <<>>, n_results |-> 0,
                    result |-> Ok(0)] : S \in QueryStores }

VectorQuery(collection_name, query_embeddings, n_results) ==
    /\ probe.pc = "stored"
    /\ \E scan \in Perms(probe.store.vector_items) :
         /\ probe' = [probe EXCEPT
                        !.pc = "answered",
                        !.collection = collection_name,
                        !.request = query_embeddings,
                        !.n_results = n_results,
                        !.result = vector_query(probe.store, probe.max_dimension,
                                                collection_name, query_embeddings,
                                                n_results, scan)]
         /\ last' = Last("query", probe'.result, NoInfo)
    /\ UNCHANGED <<db, schema_state, schema_meta>>

QueryNext ==
    \E name \in { "c1", "c3" }, query_embeddings \in QueryBatches, n \in ResultCounts :
       VectorQuery(name, query_embeddings, n)

SpecQuery == InitQuery /\ [][QueryNext]_vars

(***************************************************************************)
(* Two calls of apply_schema at once (planner.rs 30-116).  The work on the *)
(* tables is one step of a call; the two writes of set_active_schema       *)
(* (schema_repo.rs 87-119) are two statements on the pool, outside any     *)
(* transaction, and the server may stop before either.  In this            *)
(* specification probe holds the two calls: the document, the active       *)
(* schema the call read at its start, and the statement it is at.          *)
(***************************************************************************)
Appliers == { 1, 2 }
NoApplier == [pc |-> "idle", d |-> "none", previous |-> "none"]

InitAppliers ==
    /\ db = EmptyDb
    /\ schema_state = NoSchemaState
    /\ schema_meta = NoMeta
    /\ last = Last("none", Ok(0), NoInfo)
    /\ probe = [f |-> "appliers", call |-> [m \in Appliers |-> NoApplier]]

\* validate_schema_document, get_active_schema, the signatures and the
\* apply order
ApplierBegin(m, d) ==
    /\ Ended(probe.call[m].pc)
    /\ LET valid == validate_schema_document(Docs[d])
           order == resolve_table_apply_order(Docs[d])
           begun == [NoApplier EXCEPT !.d = d, !.previous = schema_state.active_schema]
       IN  IF ~IsOk(valid) \/ ~IsOk(order)
             THEN /\ probe' = [probe EXCEPT !.call[m] = [begun EXCEPT !.pc = "returned"]]
                  /\ last' = Last("apply", IF ~IsOk(valid) THEN valid ELSE order, NoInfo)
             ELSE /\ probe' = [probe EXCEPT !.call[m] = [begun EXCEPT !.pc = "tables"]]
                  /\ UNCHANGED last
    /\ UNCHANGED <<db, schema_state, schema_meta>>

\* the loop over the tables and the marking of the tables left out
ApplierTables(m) ==
    /\ probe.call[m].pc = "tables"
    /\ LET d == probe.call[m].d
           cx == apply_tables([res |-> Ok(0), db |-> db, meta |-> schema_meta,
                               managed_tables |-> <<>>, migrated_tables |-> <<>>],
                              resolve_table_apply_order(Docs[d]).value, 1, Docs[d],
                              DocTableSignatures[d])
           removed == KeySet(get_active_schema([schema_state EXCEPT
                                !.active_schema = probe.call[m].previous]).tables)
                        \ KeySet(Docs[d].tables)
       IN  /\ db' = cx.db
           /\ IF IsOk(cx.res)
                THEN /\ schema_meta' = mark_all_unmanaged(cx.meta, removed)
                     /\ probe' = [probe EXCEPT !.call[m].pc = "active"]
                     /\ UNCHANGED last
                ELSE /\ schema_meta' = cx.meta
                     /\ probe' = [probe EXCEPT !.call[m].pc = "returned"]
                     /\ last' = Last("apply", cx.res, NoInfo)
    /\ UNCHANGED schema_state

\* set_active_schema: the upsert of the key active_schema
ApplierWriteActive(m) ==
    /\ probe.call[m].pc = "active"
    /\ schema_state' = write_active_schema(schema_state, probe.call[m].d)
    /\ probe' = [probe EXCEPT !.call[m].pc = "signature"]
    /\ UNCHANGED <<db, schema_meta, last>>

\* set_active_schema: the upsert of the key active_schema_signature, then
\* log_schema_migration and the return of the result
ApplierWriteSignature(m) ==
    /\ probe.call[m].pc = "signature"
    /\ schema_state' = write_active_schema_signature(schema_state,
                                                     DocSignature[probe.call[m].d])
    /\ probe' = [probe EXCEPT !.call[m].pc = "returned"]
    /\ last' = Last("apply", Ok(0), NoInfo)
    /\ UNCHANGED <<db, schema_meta>>

\* the server stops before the statement the call is at
ApplierStop(m) ==
    /\ ~Ended(probe.call[m].pc)
    /\ probe' = [probe EXCEPT !.call[m].pc = "stopped"]
    /\ last' = Last("stop", Ok(0), NoInfo)
    /\ UNCHANGED <<db, schema_state, schema_meta>>

ApplierDocs == { "D1", "D2", "Bcycle" }

AppliersNext ==
    \/ \E m \in Appliers, d \in ApplierDocs : ApplierBegin(m, d)
    \/ \E m \in Appliers : ApplierTables(m)
    \/ \E m \in Appliers : ApplierWriteActive(m)
    \/ \E m \in Appliers : ApplierWriteSignature(m)
    \/ \E m \in Appliers : ApplierStop(m)

SpecAppliers == InitAppliers /\ [][AppliersNext]_vars

(***************************************************************************)
(* Two move_rows calls at once that may name different target tables.      *)
(* A task fits the table done as it is, and the table users through the    *)
(* field_map name <- title.  The statements of a call are those above; an  *)
(* INSERT waits only for an uncommitted row of the same table.             *)
(***************************************************************************)
MoveTargets ==
    { MoveOptions("done", NoId, NoWhere, <<>>, <<>>),
      MoveOptions("users", NoId, NoWhere, << <<"name", "title">> >>, <<>>) }

\* the checks, the query through the pool and pool.begin(), for a call with
\* the target and the field_map of target
MoveSelectInto(m, target, id, where_clause) ==
    /\ probe.tx[m].pc = "idle"
    /\ \E scan \in Perms(db[RaceFrom].rows) :
         LET options == [target EXCEPT !.id = id, !.where_clause = where_clause]
             selected_rows == move_selection(db, schema_state, RaceFrom, options, scan)
         IN  IF ~IsOk(selected_rows) THEN Fails(m, selected_rows, {})
             ELSE /\ probe' = [probe EXCEPT !.tx[m] =
                                 [NoTx EXCEPT !.options = options,
                                              !.selected = selected_rows.value,
                                              !.i = 1,
                                              !.pc = IF selected_rows.value = <<>>
                                                       THEN "returned" ELSE "count"]]
                  /\ UNCHANGED <<db, schema_state, schema_meta, last>>

TargetSelectors == { <<"r2", NoWhere>>, <<NoId, OfUser("r1")>>, <<NoId, NoWhere>> }

TargetsNext ==
    \E m \in Movers :
       \/ \E target \in MoveTargets, s \in TargetSelectors :
             MoveSelectInto(m, target, s[1], s[2])
       \/ MoveGuard(m)
       \/ MoveInsert(m)
       \/ MoveDelete(m)
       \/ MoveCommit(m)
       \/ MoveDeadlock(m)

SpecTargets == InitRace /\ [][TargetsNext]_vars

(***************************************************************************)
(* A handler compiled and then run.  The source is a body of statements    *)
(* whose expressions are string literals, args, args.name and names of     *)
(* variables; compile_handler turns it into the steps of a function, and   *)
(* execute_manifest_function runs these steps on a database with D1        *)
(* active.  In this specification probe holds the body, the kind of the    *)
(* export, what the compiler returned and what the call returned.          *)
(***************************************************************************)
LiteralStatements ==
    { << "const", "t", "=", "'ok'" >>,
      << "const", "t", "=", "'$var.nope'" >>,
      << "let", "u", "=", "t" >>,
      << "const", "rows", "=", "await", "ctx", "db.read", "users", "collect" >>,
      << "const", "u", "=", "await", "ctx", "db.insert", "users", "args" >>,
      << "return", "t" >>,
      << "return", "u" >>,
      << "return", "nope" >>,
      << "return", "'ok'" >>,
      << "return", "'$var.t'" >>,
      << "return", "'$arg'" >>,
      << "return", "'$arg.name'" >>,
      << "return", "args.name" >>,
      << "return", "await", "ctx", "db.get", "users", "u" >> }

LiteralBodies == UNION { [1..n -> LiteralStatements] : n \in 1..MaxStatements }

LiteralKinds == { "query", "mutation" }
LiteralArgsSchema == << <<"name", StringField>> >>
LiteralArgs == << <<"name", JStr("x")>> >>

LiteralSetup == apply_schema(EmptyDb, NoSchemaState, NoMeta, "D1")

InitLiteral ==
    /\ db = LiteralSetup.db
    /\ schema_state = LiteralSetup.state
    /\ schema_meta = LiteralSetup.meta
    /\ last = Last("none", Ok(0), NoInfo)
    /\ \E body \in LiteralBodies, kind \in LiteralKinds :
          probe = [f |-> "literal", pc |-> "source", body |-> body, kind |-> kind,
                   result |-> Ok(<<>>), out |-> Ok(JNull)]

\* compile_handler on the body of the export
CompileLiteral ==
    /\ probe.f = "literal" /\ probe.pc = "source"
    /\ LET result == compile_handler(probe.body, "ctx", "args", "fn") IN
       probe' = [probe EXCEPT !.result = result,
                              !.pc = IF IsOk(result) THEN "compiled" ELSE "refused"]
    /\ UNCHANGED <<db, schema_state, schema_meta, last>>

\* execute_manifest_function on the compiled function
RunCompiled ==
    /\ probe.f = "literal" /\ probe.pc = "compiled"
    /\ \E perm \in CallScans :
         LET function == Function(probe.kind, LiteralArgsSchema, probe.result.value)
             done == execute_manifest_function(db, schema_state, [e \in {"fn"} |-> function],
                                               "fn", LiteralArgs, FreshIds(db), perm)
         IN  /\ db' = done.db
             /\ last' = Last("call", done.res,
                             [NoInfo EXCEPT !.fn = "fn", !.inserted = done.inserted,
                                            !.commits = done.commits])
             /\ probe' = [probe EXCEPT !.pc = "ran", !.out = done.res]
    /\ UNCHANGED <<schema_state, schema_meta>>

LiteralNext ==
    \/ CompileLiteral
    \/ RunCompiled

SpecLiteral == InitLiteral /\ [][LiteralNext]_vars

(***************************************************************************)
(* Properties of the requests.                                             *)
(***************************************************************************)
\* C1: a move that returns an error leaves every table as it was: the target
\* table has gained none of the selected rows and the source table still
\* holds all of them.
C1_MoveAtomic ==
    [][(last'.op = "move" /\ ~last'.info.in_transaction /\ last'.kind # "Ok")
         => /\ db' = db
            /\ \A t \in TableNames :
                  last'.info.from = t => last'.info.batch \subseteq RowIdsOf(db', t)]_vars

\* a move failed on a later row, after it had moved at least one
C1_Witness ==
    /\ last.op = "move"
    /\ ~last.info.in_transaction
    /\ last.kind # "Ok"
    /\ last.info.moved >= 1
    /\ Cardinality(last.info.batch) >= 2
    /\ last.info.batch \subseteq RowIdsOf(db, "tasks")

\* C4: an update, delete or move, plain or in a caller's transaction, that
\* is given both an id and a where clause, or neither, returns a Validation
\* error and changes no row, neither committed nor in the transaction; and
\* the selector check refuses no call that gives exactly one of the two.
XorMessages ==
    { "exactly one of 'id' or 'where' must be provided (not both)",
      "exactly one of 'id' or 'where' must be provided" }

C4_SelectorXor ==
    [][last'.op \in {"update", "delete", "move"}
         => /\ (last'.info.id_given = last'.info.where_given)
                 => /\ last'.kind = "Validation"
                    /\ db' = db
                    /\ ~last'.info.written
            /\ (last'.msg \in XorMessages)
                 => (last'.info.id_given = last'.info.where_given)]_vars

\* a transactional move given both selectors was refused while the row its
\* id names was there to be moved
C4_Witness ==
    /\ last.op = "move"
    /\ last.info.in_transaction
    /\ last.info.id_given /\ last.info.where_given
    /\ last.msg \in XorMessages
    /\ "r1" \in RowIdsOf(db, "tasks")
    /\ schema_state.active_schema = "D2"

\* C5: an insert or update, plain or in a caller's transaction, whose
\* prepared payload names in an Id field a row its target table does not
\* hold, fails with a Validation error and writes no row.
C5_ForeignKeyChecked ==
    [][(last'.op \in {"insert", "update"} /\ last'.info.fk_miss)
         => /\ last'.kind = "Validation"
            /\ db' = db
            /\ ~last'.info.written]_vars

\* a transactional update of an existing task named a user that is not there
C5_Witness ==
    /\ last.op = "update"
    /\ last.info.in_transaction
    /\ last.info.fk_miss
    /\ last.kind = "Validation"
    /\ "r1" \in RowIdsOf(db, "tasks")
    /\ "r1" \notin RowIdsOf(db, "users")

\* the Id fields the active schema declares for table t: <<field, target>>
IdFieldsOf(state, t) ==
    IF state.active_schema = "none" \/ ~MapHas(Docs[state.active_schema].tables, t) THEN {}
    ELSE LET fields == MapGet(Docs[state.active_schema].tables, t).fields
         IN  { <<fields[i][1], unwrap_base(fields[i][2]).table>> :
                 i \in { j \in 1..Len(fields) :
                           unwrap_base(fields[j][2]).field_type = "id" } }

\* C6: in every reachable state, every non-null value of an Id field of a
\* stored row is the _id of a row of the field's target table.
C6_ReferentialIntegrity ==
    \A t \in TableNames : \A r \in db[t].rows : \A f \in IdFieldsOf(schema_state, t) :
       (f[1] \in DOMAIN r /\ r[f[1]] # Null) => r[f[1]] \in RowIdsOf(db, f[2])

\* document S2 keeps every table, field and index of document S1
KeepsAll(S1, S2) ==
    \A i \in 1..Len(S1.tables) :
       LET t == S1.tables[i][1]
           old == S1.tables[i][2]
       IN  /\ MapHas(S2.tables, t)
           /\ \A j \in 1..Len(old.fields) :
                 /\ MapHas(MapGet(S2.tables, t).fields, old.fields[j][1])
                 /\ MapGet(MapGet(S2.tables, t).fields, old.fields[j][1]) = old.fields[j][2]
           /\ Range(old.indexes) \subseteq Range(MapGet(S2.tables, t).indexes)

\* what query returns for the whole of table t, read in some fixed order
AllOf(D, state, t) == query(D, state, t, QueryOptions(NoWhere, <<>>, <<>>, 0), SeqOf(D[t].rows))

\* every row query returned for table t of S1 before the step is returned
\* after it, with the same _id and the same values of the fields of S1
StillReadable(S1, t) ==
    LET before == AllOf(db, schema_state, t)
        after == AllOf(db', schema_state', t)
    IN  IsOk(before) =>
          /\ IsOk(after)
          /\ \A i \in 1..Len(before.value) : \E j \in 1..Len(after.value) :
                \A n \in {"_id"} \cup KeySet(MapGet(S1.tables, t).fields) :
                   MapGet(after.value[j].v, n) = MapGet(before.value[i].v, n)

\* C7: when a document that keeps every table and field of the active one
\* is applied, every row query returned before is returned after, with the
\* same _id and the same values of the old fields; and no apply, whatever
\* it returns, removes a table, a column or a row or changes a stored value.
C7_NonDestructive ==
    [][last'.op = "apply"
         => /\ (/\ last'.kind = "Ok"
                 /\ schema_state.active_schema # "none"
                 /\ KeepsAll(Docs[schema_state.active_schema],
                             Docs[schema_state'.active_schema]))
                  => \A t \in KeySet(Docs[schema_state.active_schema].tables) :
                        StillReadable(Docs[schema_state.active_schema], t)
            /\ \A t \in TableNames :
                  /\ db[t].exists => db'[t].exists
                  /\ db[t].cols \subseteq db'[t].cols
                  /\ \A r \in db[t].rows : \E q \in db'[t].rows :
                        \A n \in DOMAIN r : q[n] = r[n]]_vars

\* D2 was applied over a task written under D1: the row is there, with the
\* value MySQL gave it in the added column
C7_Witness ==
    /\ last.op = "apply"
    /\ last.kind = "Ok"
    /\ schema_state.active_schema = "D2"
    /\ \E r \in db["tasks"].rows : r["_id"] = "r1" /\ r["title"] = "a" /\ r["user_id"] = ""

IsQuery(endpoint) == endpoint \in DOMAIN Manifest /\ Manifest[endpoint].kind = "query"
IsMutation(endpoint) == endpoint \in DOMAIN Manifest /\ Manifest[endpoint].kind = "mutation"

C3_MutationAtomic ==
    [][(last'.op = "call" /\ IsMutation(last'.info.fn))
         => /\ last'.kind # "Ok"
                 => /\ db' = db
                    /\ last'.info.commits = 0
                    /\ \A w \in last'.info.inserted : w[2] \notin RowIdsOf(db', w[1])
            /\ last'.kind = "Ok"
                 => /\ last'.info.commits = 1
                    /\ \A w \in last'.info.inserted : w[2] \in RowIdsOf(db', w[1])]_vars

\* a mutation failed with a database error after an insert step had written
\* a row in its transaction
C3_Witness ==
    /\ last.op = "call"
    /\ IsMutation(last.info.fn)
    /\ last.kind = "Database"
    /\ last.info.inserted # {}

\* a mutation whose two insert steps succeeded, the second naming the row
\* of the first
C3_WitnessOk ==
    /\ last.op = "call"
    /\ last.info.fn = "m_pair"
    /\ last.kind = "Ok"
    /\ Cardinality(last.info.inserted) = 2
    /\ \E r \in db["tasks"].rows : "user_id" \in DOMAIN r /\ r["user_id"] \in RowIdsOf(db, "users")

\* the placeholders of an SQL fragment, left to right: each with the column
\* it is compared with, the operator after that column, and its place among
\* the placeholders of that comparison
Sites(sql) ==
    LET at == SelectSeq([i \in 1..Len(sql) |-> i], LAMBDA i : sql[i] = Placeholder)
        col(k) == CHOOSE j \in 1..k : sql[j].k = "col"
                                       /\ \A m \in (j + 1)..k : sql[m].k # "col"
    IN  [n \in 1..Len(at) |->
           [col |-> sql[col(at[n])].v,
            op |-> sql[col(at[n]) + 1].v,
            pos |-> Cardinality({ m \in col(at[n])..at[n] : sql[m] = Placeholder })]]

\* the bind a JSON operand stands for
BindOf(value) ==
    CASE value.t = "str" -> SqlString(<<value.v>>)
      [] value.t = "num" -> SqlNumber(value.v)
      [] OTHER -> SqlBool(value.v)

\* what one operator of a predicate asks to be bound: [col, op, pos, param]
OperatorBinds(key, operator, operand) ==
    LET single(op, param) == { [col |-> key, op |-> op, pos |-> 1, param |-> param] } IN
    CASE operator \in {"$eq", "$ne"} /\ operand.t = "null" -> {}
      [] operator = "$eq" -> single("=", BindOf(operand))
      [] operator = "$ne" -> single("<>", BindOf(operand))
      [] operator = "$gt" -> single(">", BindOf(operand))
      [] operator = "$gte" -> single(">=", BindOf(operand))
      [] operator = "$lt" -> single("<", BindOf(operand))
      [] operator = "$lte" -> single("<=", BindOf(operand))
      [] operator = "$contains" -> single("LIKE", SqlString(<<"%", operand.v, "%">>))
      [] OTHER -> { [col |-> key, op |-> IF operator = "$in" THEN "IN" ELSE "NOT IN",
                     pos |-> j, param |-> BindOf(operand.v[j])] : j \in 1..Len(operand.v) }

\* every bind an accepted predicate asks for
RECURSIVE Binds(_)
Binds(condition) ==
    UNION { LET key == condition.v[i][1]
                value == condition.v[i][2]
            IN  IF key \in {"$and", "$or"}
                  THEN UNION { Binds(value.v[j]) : j \in 1..Len(value.v) }
                ELSE IF value.t = "obj"
                  THEN UNION { OperatorBinds(key, value.v[j][1], value.v[j][2]) :
                                 j \in 1..Len(value.v) }
                ELSE IF value.t = "null" THEN {}
                ELSE { [col |-> key, op |-> "=", pos |-> 1, param |-> BindOf(value)] }
            : i \in 1..Len(condition.v) }

\* the left-to-right order of the binds a predicate asks for
RECURSIVE BindOrder(_)
BindOrder(condition) ==
    LET entry(i) ==
          LET key == condition.v[i][1]
              value == condition.v[i][2]
              ops(j) == IF value.v[j][1] \in {"$eq", "$ne"} /\ value.v[j][2].t = "null"
                          THEN <<>>
                        ELSE IF value.v[j][1] = "$contains"
                          THEN <<SqlString(<<"%", value.v[j][2].v, "%">>)>>
                        ELSE IF value.v[j][1] \in {"$in", "$nin"}
                          THEN [m \in 1..Len(value.v[j][2].v) |-> BindOf(value.v[j][2].v[m])]
                        ELSE <<BindOf(value.v[j][2])>>
          IN  IF key \in {"$and", "$or"}
                THEN Flatten([j \in 1..Len(value.v) |-> BindOrder(value.v[j])])
              ELSE IF value.t = "obj"
                THEN Flatten([j \in 1..Len(value.v) |-> ops(j)])
              ELSE IF value.t = "null" THEN <<>>
              ELSE <<BindOf(value)>>
    IN  Flatten([i \in 1..Len(condition.v) |-> entry(i)])

SameBind(a, b) == a.t = b.t /\ a.v = b.v

\* C8: for every predicate compile_where_clause accepts, the emitted SQL has
\* as many placeholders as there are binds, the binds are those the
\* predicate asks for in its left-to-right order, and the k-th bind is the
\* operand of the comparison that holds the k-th placeholder.
C8_WhereSound ==
    (probe.f = "where" /\ IsOk(probe.res) /\ probe.res.value.some)
      => LET sites == Sites(probe.res.value.clause)
             params == probe.res.value.params
             wanted == BindOrder(probe.input)
         IN  /\ Len(sites) = Len(params)
             /\ Len(wanted) = Len(params)
             /\ \A k \in 1..Len(params) :
                   /\ SameBind(params[k], wanted[k])
                   /\ \E o \in Binds(probe.input) :
                         /\ o.col = sites[k].col
                         /\ o.op = sites[k].op
                         /\ o.pos = sites[k].pos
                         /\ SameBind(o.param, params[k])

\* a nested predicate with an $or of a $contains and an $in, and then a
\* comparison, compiled to five placeholders
C8_Witness ==
    /\ probe.f = "where"
    /\ IsOk(probe.res)
    /\ Len(probe.res.value.params) = 5
    /\ MapHas(probe.input.v, "$and")
    /\ SameBind(probe.res.value.params[1], SqlString(<<"%", "b", "%">>))

\* ^[a-zA-Z_][a-zA-Z0-9_]*$, read off the spelling of a name
MatchesIdentifierRegex(n) ==
    /\ Chars(n) # <<>>
    /\ Head(Chars(n)) \notin Digits
    /\ Range(Chars(n)) \subseteq Letters \cup Digits \cup {"_"}

\* the columns an SQL fragment embeds
ColumnsOf(sql) == { sql[i].v : i \in { j \in 1..Len(sql) : sql[j].k = "col" } }

\* the field names a predicate uses as keys, at any depth of $and / $or
RECURSIVE FieldsNamed(_)
FieldsNamed(condition) ==
    IF condition.t # "obj" THEN {}
    ELSE UNION { LET key == condition.v[i][1]
                     value == condition.v[i][2]
                 IN  IF key \notin {"$and", "$or"} THEN {key}
                     ELSE IF value.t # "arr" THEN {}
                     ELSE UNION { FieldsNamed(value.v[j]) : j \in 1..Len(value.v) }
                 : i \in 1..Len(condition.v) }

\* the `$` operators a predicate applies to its fields
RECURSIVE OperatorsNamed(_)
OperatorsNamed(condition) ==
    IF condition.t # "obj" THEN {}
    ELSE UNION { LET key == condition.v[i][1]
                     value == condition.v[i][2]
                 IN  IF key \in {"$and", "$or"}
                       THEN IF value.t # "arr" THEN {}
                            ELSE UNION { OperatorsNamed(value.v[j]) : j \in 1..Len(value.v) }
                     ELSE IF value.t # "obj" THEN {}
                     ELSE { value.v[j][1] : j \in { m \in 1..Len(value.v) :
                                                      Head(Chars(value.v[m][1])) = "$" } }
                 : i \in 1..Len(condition.v) }

KnownOperators == { "$eq", "$ne", "$gt", "$gte", "$lt", "$lte", "$contains", "$in", "$nin" }

\* the fields a column name may be: allowed, and an identifier
SafeFields == { n \in ProbeAllowed : MatchesIdentifierRegex(n) }

\* C9: every column compile_where_clause or compile_order_by embeds in the
\* SQL it emits is an allowed field that matches the identifier regex; a
\* predicate that names any other field or an unknown `$` operator, and an
\* order-by list that names any other field, is refused with a Validation
\* error and no SQL.
C9_IdentifierSafe ==
    /\ (probe.f = "where" /\ IsOk(probe.res))
          => ColumnsOf(probe.res.value.clause) \subseteq SafeFields
    /\ (probe.f = "order" /\ IsOk(probe.res))
          => ColumnsOf(probe.res.value) \subseteq SafeFields
    /\ (probe.f = "where" /\ ~(FieldsNamed(probe.input) \subseteq SafeFields))
          => probe.res.kind = "Validation"
    /\ (probe.f = "where" /\ ~(OperatorsNamed(probe.input) \subseteq KnownOperators))
          => probe.res.kind = "Validation"
    /\ (probe.f = "order"
          /\ \E i \in 1..Len(probe.input) : probe.input[i].field \notin SafeFields)
          => probe.res.kind = "Validation"

\* an allowed field whose name is no identifier is refused by the
\* identifier check
C9_Witness ==
    /\ probe.f = "where"
    /\ probe.input = One("bad name", One("$ne", JNum(1)))
    /\ probe.res = Err("Validation", "invalid identifier")

\* an order-by list over allowed identifiers is compiled to its columns
C9_WitnessOrder ==
    /\ probe.f = "order"
    /\ IsOk(probe.res)
    /\ ColumnsOf(probe.res.value) = {"title", "_id"}

\* serde_json::to_string of a Value whose objects are all in key order
KeySortedJson(value) == to_string(rebuild_value(FALSE, value))

\* C10: two documents with the same tables, fields, indexes and migration
\* rules that were built with different insertion orders have the same
\* signature; the signature has sixteen hexadecimal digits, and the
\* canonical JSON it hashes is the key-sorted JSON of the document.
C10_SignatureDeterministic ==
    probe.f = "signature"
      => /\ probe.res.a = probe.res.b
         /\ Len(probe.res.a) = 16
         /\ Range(probe.res.a) \subseteq Range(HexDigits)
         /\ probe.res.canonical_a
               = KeySortedJson(schema_to_value(
                   BuildDocument(probe.input.preserve_order, probe.input.b)))

\* in the build that keeps insertion order, two documents whose default
\* objects hold their keys in different orders, with equal signatures
C10_Witness ==
    /\ probe.f = "signature"
    /\ probe.input.preserve_order
    /\ \A m \in DOMAIN probe.input.a : probe.input.a[m] # probe.input.b[m]
    /\ BuildDocument(TRUE, probe.input.a) # BuildDocument(TRUE, probe.input.b)
    /\ probe.res.a = probe.res.b

\* the signature of a document is the same in both builds of serde_json
SignatureSameInBothBuilds ==
    probe.f = "signature" => probe.res.a = probe.res.other_build

\* C11 as stated: decoding an encoded vector gives a vector equal (==) to the
\* original, for every vector; the blob holds four bytes per element; decoding
\* a blob fails exactly when its length is no multiple of four.
C11_AsStated ==
    /\ probe.f = "round trip"
         => /\ Len(probe.res.encoded) = 4 * Len(probe.input)
            /\ IsOk(probe.res.decoded)
            /\ vec_eq(probe.res.decoded.value, probe.input)
    /\ probe.f = "decode" => (~IsOk(probe.res) <=> Len(probe.input) % 4 # 0)

\* C11: decoding an encoded vector gives back the bit patterns of the
\* original, and a vector equal (==) to it when no element is a NaN; the blob
\* holds four bytes per element; decoding a blob fails exactly when its
\* length is no multiple of four.
C11_RoundTrip ==
    /\ probe.f = "round trip"
         => /\ Len(probe.res.encoded) = 4 * Len(probe.input)
            /\ IsOk(probe.res.decoded)
            /\ probe.res.decoded.value = probe.input
            /\ (\A i \in 1..Len(probe.input) : ~is_nan(probe.input[i]))
                  => vec_eq(probe.res.decoded.value, probe.input)
    /\ probe.f = "decode" => (~IsOk(probe.res) <=> Len(probe.input) % 4 # 0)

\* the vector of the unit test, <<1.0, 2.5>>, encoded to eight bytes and back
C11_Witness ==
    /\ probe.f = "round trip"
    /\ probe.input = <<F32(0, 127, 0), F32(0, 128, 2097152)>>
    /\ probe.res.encoded = <<0, 0, 128, 63, 0, 0, 32, 64>>
    /\ vec_eq(probe.res.decoded.value, probe.input)

\* C12: a move that returns Ok has moved every source row its selector
\* matched when the call was made: with a where selector as many rows as
\* the predicate matched, with an id selector the row with that _id if the
\* source table held it, whatever the query limits are.
C12_MoveSelectsAll ==
    [][(last'.op = "move" /\ last'.kind = "Ok" /\ probe'.f = "move")
         => /\ last'.info.moved = Cardinality(probe'.matching)
            /\ probe'.matching \cap RowIdsOf(db', "tasks") = {}]_vars


\* the column value the row mapping chooses for the target field f of type
\* def out of the source row s, whose public keys are keys
ChosenValue(s, keys, f, def, field_map, defaults) ==
    LET key == IF f \in { field_map[i][1] : i \in 1..Len(field_map) }
                 THEN (CHOOSE e \in Range(field_map) : e[1] = f)[2]
                 ELSE f
    IN  IF key \in keys THEN << s[key] >>
        ELSE IF f \in { defaults[i][1] : i \in 1..Len(defaults) }
          THEN << bind_json_value((CHOOSE e \in Range(defaults) : e[1] = f)[2]) >>
        ELSE IF def.field_type = "optional" THEN << Null >>
        ELSE <<>>

\* C13: after a move that returned n, exactly n rows have left the source
\* table and n have entered the target table, nothing else has changed in
\* the two, and every row that entered is a row that left, with the same _id
\* and the same _created_at, and with every target field holding the value
\* the row mapping chooses: the source value under field_map[field] (or under
\* the field's own name) if the source row has that key, else
\* defaults[field], else null for an Optional field.
C13_MovedRows ==
    [][(last'.op = "move" /\ last'.kind = "Ok" /\ probe'.f = "moved")
         => LET from == probe'.plan.from
                options == probe'.plan.options
                tables == Docs[schema_state.active_schema].tables
                keys == SystemColumns \cup KeySet(MapGet(tables, from).fields)
                fields == MapGet(tables, options.to_table).fields
                gone == db[from].rows \ db'[from].rows
                come == db'[options.to_table].rows \ db[options.to_table].rows
            IN  /\ db'[from].rows \subseteq db[from].rows
                /\ db[options.to_table].rows \subseteq db'[options.to_table].rows
                /\ Cardinality(gone) = probe'.value
                /\ Cardinality(come) = probe'.value
                /\ \A s \in gone : \E r \in come :
                      /\ r["_id"] = s["_id"]
                      /\ r["_created_at"] = s["_created_at"]
                      /\ \A i \in 1..Len(fields) :
                            << r[fields[i][1]] >> =
                               ChosenValue(s, keys, fields[i][1], fields[i][2],
                                           options.field_map, options.defaults)]_vars

\* a task inserted at one instant has been moved at a later one, under a
\* field map, and is in done with the instant of its insertion
C13_Witness ==
    /\ last.op = "move" /\ last.kind = "Ok" /\ probe.f = "moved"
    /\ probe.value = 2
    /\ probe.plan.options.field_map = << <<"note", "title">> >>
    /\ schema_state.now = Instants[4]
    /\ \E r \in db["done"].rows : r["_created_at"] = "00" /\ r["note"] = "a"
    /\ \E r \in db["done"].rows : r["_created_at"] = "00.000001" /\ r["note"] = "b"

\* a move under defaults: the field map names a key the source row lacks
C13_WitnessDefaults ==
    /\ last.op = "move" /\ last.kind = "Ok" /\ probe.f = "moved"
    /\ probe.value = 1
    /\ \E r \in db["done"].rows : r["title"] = "d" /\ r["note"] = "n"


\* the rows of vector_items of the collection named name
ItemsOf(S, name) ==
    { r \in S.vector_items : \E c \in S.collections : c.name = name /\ c.id = r.collection_id }

\* C14: add_items is atomic per call.  A call that fails (an empty
\* embedding, a dimension above max_dimension, an insert error such as a
\* duplicate id) leaves vector_items as it was; a call that succeeds returns
\* one id per input item, in input order (the item's own id where it brought
\* one), and every item is stored in the collection under that id, and
\* nothing else has changed.
C14_AddItemsAtomic ==
    [][(last'.op = "add_items")
         => IF last'.kind # "Ok"
              THEN probe'.store = probe.store
              ELSE LET items == probe'.request
                       ids == probe'.ids
                       new == probe'.store.vector_items \ probe.store.vector_items
                   IN  /\ Len(ids) = Len(items)
                       /\ \A i \in 1..Len(items) :
                             /\ items[i].id # <<>> => ids[i] = items[i].id[1]
                             /\ \E r \in ItemsOf(probe'.store, probe'.collection) :
                                   /\ r.id = ids[i]
                                   /\ r.embedding_blob = encode_embedding(items[i].embedding)
                                   /\ r.embedding_dim = Len(items[i].embedding)
                       /\ probe.store.vector_items \subseteq probe'.store.vector_items
                       /\ Cardinality(new) = Len(items)
                       /\ { r.id : r \in new } = Range(ids)
                       /\ probe'.store.collections = probe.store.collections]_vars

\* a batch failed on its second item, a duplicate of the first, and the
\* first is not stored
C14_Witness ==
    /\ last.op = "add_items" /\ last.msg = "duplicate primary key"
    /\ probe.request = << NewVectorItem(<<"i1">>, <<UnitFloat>>),
                          NewVectorItem(<<"i1">>, <<UnitFloat>>) >>
    /\ \A r \in probe.store.vector_items : r.id # "i1"

\* a batch of two succeeded: an item with its own id and one with a new UUID
C14_WitnessStored ==
    /\ last.op = "add_items" /\ last.kind = "Ok"
    /\ probe.request = << NewVectorItem(<<>>, <<UnitFloat>>),
                          NewVectorItem(<<"i1">>, <<UnitFloat>>) >>
    /\ probe.ids = << "u1", "i1" >>


\* every table of document d is ensured, indexed, migrated and recorded in
\* _skypydb_schema_meta, and every table of the previous document that d
\* lacks is marked unmanaged
Applied(D, meta, d, previous) ==
    /\ \A t \in KeySet(Docs[d].tables) :
          LET definition == MapGet(Docs[d].tables, t) IN
          /\ D[t].exists
          /\ KeySet(definition.fields) \subseteq ColNames(D, t)
          /\ { definition.indexes[i].name : i \in 1..Len(definition.indexes) }
                \subseteq D[t].indexes
          /\ has_rule(Docs[d], t)
                => RowIdsOf(D, MapGet(Docs[d].migrations, t).from) \subseteq RowIdsOf(D, t)
          /\ meta[t] = [present |-> TRUE,
                        signature |-> MapGet(DocTableSignatures[d], t),
                        managed |-> TRUE]
    /\ previous # "none" =>
          \A t \in KeySet(Docs[previous].tables) \ KeySet(Docs[d].tables) :
             meta[t].present /\ ~meta[t].managed

\* what get_active_schema returns when the active document is named d
ActiveDocument(d) == IF d = "none" THEN Document(<<>>, <<>>) ELSE Docs[d]

\* the statements of apply_schema before the write of active_schema
EarlierSteps == { "ensure", "index", "migrate", "meta", "unmanaged", "active" }

\* C15: the active schema is written last.  A step that changes the state
\* rows is a write of set_active_schema, made when every table of the
\* document is ensured, indexed, migrated and recorded and every removed
\* table is marked unmanaged; and when apply_schema fails or stops at any
\* earlier statement, get_active_schema returns the schema that was active
\* when the call began.
C15_ActiveSchemaLast ==
    [][/\ schema_state' # schema_state
            => /\ probe.pc \in { "active", "signature" }
               /\ Applied(db, schema_meta, probe.d, probe.previous)
       /\ (probe'.pc \in { "returned", "stopped" } /\ probe.pc \in EarlierSteps)
            => get_active_schema(schema_state') = ActiveDocument(probe'.previous)]_vars

\* an apply of D1 over D2 stopped after its first table was recorded: D2 is
\* still active and done is not yet marked unmanaged
C15_Witness ==
    /\ probe.pc = "stopped" /\ probe.d = "D1" /\ probe.previous = "D2" /\ probe.i = 2
    /\ schema_state.active_schema = "D2"
    /\ ~schema_meta["done"].present \/ schema_meta["done"].managed

\* an apply failed in a migration and the previous schema stays active
C15_WitnessFailed ==
    /\ probe.pc = "returned" /\ last.op = "apply" /\ last.kind # "Ok"
    /\ probe.d = "D3" /\ probe.previous = "D2"
    /\ schema_state.active_schema = "D2"


\* the _ids of the rows a get or first step returned
Returned(result) ==
    IF result.t = "arr" THEN { MapGet(result.v[i].v, "_id").v : i \in 1..Len(result.v) }
    ELSE IF result.t = "obj" THEN { MapGet(result.v, "_id").v }
    ELSE {}

\* the step reads table t by the _id of a row, or reads all of it
ReadsRow(step, context, t, id) ==
    /\ step.op \in { "get", "first" }
    /\ With(parse_query_step(step, context), LAMBDA parsed :
         /\ IsOk(parsed)
         /\ parsed.value.table = t
         /\ parsed.value.options.where_clause
              \in { NoWhere, JObj(<< <<"_id", JObj(<< <<"$eq", JStr(id)>> >>)>> >>) })

\* C16: within a Mutation call the steps execute one at a time in manifest
\* order inside one transaction: each turn executes the next step of the
\* manifest and leaves the committed data alone, the only change of the
\* committed data is the commit at the end, and a get or first step that
\* reads a row an insert step of the same call created (by its _id, or by
\* reading the whole table) returns that row.
C16_StepsInOrder ==
    [][probe.f = "call" =>
         /\ (probe.pc = "steps" /\ probe'.run # probe.run)
              => /\ probe'.run.executed = probe.run.executed + 1
                 /\ db' = db
                 /\ \A w \in probe.run.inserted :
                       (ReadsRow(AtStep, probe.run.context, w[1], w[2]) /\ IsOk(probe'.run.res))
                         => w[2] \in Returned(probe'.run.last_result)
         /\ (db' # db /\ probe.pc # "idle")
              => /\ probe.pc = "commit"
                 /\ db' = probe.run.db
                 /\ probe.run.returned
                      \/ probe.run.executed = Len(StepManifest[probe.endpoint].steps)]_vars

\* `const u = await ctx.db.insert(...); return await ctx.db.get("users", u)`
\* is at its return step with the new row, which is not committed yet
C16_Witness ==
    /\ probe.f = "call" /\ probe.pc = "steps" /\ probe.endpoint = "m_insert_get"
    /\ probe.run.executed = 2
    /\ probe.run.last_result.t = "obj"
    /\ Returned(probe.run.last_result) = { probe.ids[1] }
    /\ probe.ids[1] \notin RowIdsOf(db, "users")

\* a get step that reads the whole table returned the row the call inserted
C16_WitnessGet ==
    /\ probe.f = "call" /\ probe.endpoint = "m_read_insert_read" /\ probe.run.executed = 3
    /\ probe.ids[1] \in Returned(probe.run.last_result)
    /\ Cardinality(Returned(probe.run.last_result)) = 2


\* no table holds two rows with one _id
UniqueIds(D) ==
    \A t \in TableNames : \A a \in D[t].rows : \A b \in D[t].rows :
       a["_id"] = b["_id"] => a = b

\* C17: when two move_rows calls run at once and both try to place a row
\* with the same _id into the same target table, at most one of them commits,
\* the target never holds two rows with that _id, and the call that loses
\* returns an error with its inserts and deletes rolled back: its return
\* leaves the committed data as it was, every task is in exactly one of
\* the two tables, and what a call committed is what it counted.
C17_OneMoveWins ==
    [][/\ UniqueIds(db')
       /\ \A m \in Movers : \A o \in Movers \ {m} :
             (probe'.tx[m].pc = "committed" /\ probe'.tx[o].pc = "committed")
               => probe'.tx[m].tried \cap probe'.tx[o].tried = {}
       /\ \A m \in Movers :
             (probe'.tx[m].pc = "failed" /\ probe.tx[m].pc # "failed")
               => /\ db' = db
                  /\ last'.kind # "Ok"
                  /\ probe'.tx[m].ins = {} /\ probe'.tx[m].del = {}
       /\ RowIdsOf(db', RaceFrom) \cup RowIdsOf(db', RaceTo) = { "r2", "r3" }
       /\ RowIdsOf(db', RaceFrom) \cap RowIdsOf(db', RaceTo) = {}
       /\ \A m \in Movers :
             (probe'.tx[m].pc = "committed" /\ probe.tx[m].pc = "commit")
               => /\ RowIdsOf(db', RaceTo) \ RowIdsOf(db, RaceTo) = probe.tx[m].del
                  /\ RowIdsOf(db, RaceFrom) \ RowIdsOf(db', RaceFrom) = probe.tx[m].del
                  /\ Cardinality(probe.tx[m].del) = probe.tx[m].moved]_vars

\* both calls passed the COUNT guard for r2; the first committed, the
\* second had moved r3 in its transaction and lost on r2: r3 is still a task
C17_Witness ==
    /\ probe.f = "race"
    /\ probe.tx[1].pc = "committed" /\ probe.tx[2].pc = "failed"
    /\ "r2" \in probe.tx[1].tried \cap probe.tx[2].tried
    /\ "r3" \in probe.tx[2].tried
    /\ last.msg = "duplicate primary key"
    /\ RowIdsOf(db, RaceTo) = { "r2" } /\ RowIdsOf(db, RaceFrom) = { "r3" }

\* the two calls moved the two tasks in opposite orders and waited for each
\* other: one was failed, and nothing of it is in the committed data
C17_WitnessDeadlock ==
    /\ probe.f = "race"
    /\ last.msg = "deadlock found when trying to get lock"
    /\ \E m \in Movers : \E o \in Movers :
          /\ probe.tx[m].pc = "failed" /\ probe.tx[m].tried = { "r2", "r3" }
          /\ InTransaction(probe.tx[o]) /\ probe.tx[o].ins # {}
    /\ RowIdsOf(db, RaceFrom) = { "r2", "r3" }


\* a statement of none of the allowed shapes: not empty, not console.log,
\* not a return, not a declaration
Unrecognised(statement) ==
    /\ statement # <<>>
    /\ statement[1] \notin { "console.log(", "return" }
    /\ ~decl_re(statement)

\* the error quotes the statement
Names(result, statement) ==
    /\ result.kind = "Validation"
    /\ result.msg.what = "contains unsupported statement"
    /\ result.msg.text = statement

\* the statements that come before the first return statement of the body
BeforeReturn(body) ==
    { i \in 1..Len(body) :
        \A j \in 1..(i - 1) : body[j] = <<>> \/ body[j][1] # "return" }

\* C19: compile_handler returns a Validation error that names the offending
\* text for every handler body with a statement of none of the allowed
\* shapes, at whatever position of the body the statement occurs; a handler
\* that yields no steps is also a compile error.
C19_UnrecognisedFails ==
    probe.f = "compiled" =>
      /\ (\E i \in 1..Len(probe.body) : Unrecognised(probe.body[i]))
           => /\ ~IsOk(probe.result)
              /\ probe.result.kind = "Validation"
              /\ \E i \in 1..Len(probe.body) :
                    \/ Names(probe.result, probe.body[i])
                    \/ /\ probe.result.msg.what = "unsupported function expression"
                       /\ \E k \in 1..Len(probe.body[i]) :
                             SubSeq(probe.body[i], k, Len(probe.body[i]))
                               = probe.result.msg.text
      /\ IsOk(probe.result) => probe.result.value # <<>>

\* what the compiler does: the statements up to the first return are all
\* compiled or refused, the statements after it are not looked at
C19_UpToReturn ==
    probe.f = "compiled" =>
      /\ (\E i \in BeforeReturn(probe.body) : Unrecognised(probe.body[i]))
           => /\ ~IsOk(probe.result)
              /\ probe.result.kind = "Validation"
      /\ IsOk(probe.result)
           => /\ probe.result.value # <<>>
              /\ \A i \in BeforeReturn(probe.body) : ~Unrecognised(probe.body[i])
      /\ (~IsOk(probe.result) /\ probe.result.msg.what = "contains unsupported statement")
           => \E i \in BeforeReturn(probe.body) :
                 Unrecognised(probe.body[i]) /\ Names(probe.result, probe.body[i])

\* a body whose statement after the return is no statement of the grammar
\* compiles
C19_AfterReturn ==
    /\ probe.f = "compiled"
    /\ probe.body = << << "return" >>, << "throw", "id" >> >>
    /\ probe.result = Ok(<< ReturnStep(JNull) >>)

\* a body of a console.log alone yields no steps and is refused
C19_NoSteps ==
    /\ probe.f = "compiled"
    /\ probe.body = << << "console.log(", "args.name" >> >>
    /\ probe.result.kind = "Validation"
    /\ probe.result.msg.what = "handler produced no executable steps"

\* an insert, a get of the inserted row and a returned get compile to
\* insert, first, first, return
C19_Compiled ==
    /\ probe.f = "compiled"
    /\ probe.body = << << "const", "id", "=", "await", "ctx", "db.insert", "users", "args" >>,
                       << "const", "u", "=", "await", "ctx", "db.get", "users", "id" >>,
                       << "return", "await", "ctx", "db.get", "users", "args.id" >> >>
    /\ probe.result = Ok(<< InsertStep("id", "users", JStr("$arg")),
                            FirstStep("u", "users", JStr("$var.id")),
                            FirstStep("__return_value", "users", JStr("$arg.id")),
                            ReturnStep(JStr("$var.__return_value")) >>)


\* the exports the loader reads: file of the collected files, position
ExportsRead(directory) ==
    { <<p, i>> : p \in Range(collect_ts_files(directory)), i \in 1..MaxExports }
      \cap { e \in SourcePaths \X (1..MaxExports) : e[2] <= Len(directory[e[1]]) }

\* the endpoint key of an export: the module path with dots, and the name
KeyOf(directory, e) == endpoint_of(e[1], directory[e[1]][e[2]].export_name)

\* two exports of different files have one endpoint key
DuplicateAcrossFiles(directory) ==
    \E d \in ExportsRead(directory) : \E e \in ExportsRead(directory) :
       d[1] # e[1] /\ KeyOf(directory, d) = KeyOf(directory, e)

\* two exports of one file have one endpoint key
DuplicateInFile(directory) ==
    \E d \in ExportsRead(directory) : \E e \in ExportsRead(directory) :
       d[1] = e[1] /\ d[2] # e[2] /\ KeyOf(directory, d) = KeyOf(directory, e)

\* C18: compiling source files in which two exports map to the same endpoint
\* key fails with a Validation error and produces no manifest, when the two
\* exports are in different files and when they are two exports of the same
\* name in one file.
C18_DuplicatesRejected ==
    (probe.f = "loaded" /\ (DuplicateAcrossFiles(probe.directory)
                              \/ DuplicateInFile(probe.directory)))
      => ~IsOk(probe.result) /\ probe.result.kind = "Validation"

\* what the loader does: two exports of different files with one endpoint
\* key are refused, and a manifest has one function for every endpoint key
\* of the exports read
C18_AcrossFiles ==
    probe.f = "loaded" =>
      /\ DuplicateAcrossFiles(probe.directory)
           => ~IsOk(probe.result) /\ probe.result.kind = "Validation"
      /\ IsOk(probe.result)
           => KeySet(probe.result.value.functions)
                = { KeyOf(probe.directory, e) : e \in ExportsRead(probe.directory) }

\* a/b.ts and a.b.ts both export f: the endpoint a.b.f is refused
C18_RefusedAcross ==
    /\ probe.f = "loaded"
    /\ DOMAIN probe.directory = { "a/b.ts", "a.b.ts" }
    /\ ~DuplicateInFile(probe.directory)
    /\ probe.result.kind = "Validation"
    /\ probe.result.msg.what = "duplicate function endpoint"
    /\ probe.result.msg.text = "a.b.f"

\* a.ts exports f twice, as a read function and then as a write function:
\* the manifest holds the second under a.f
C18_SecondExportWins ==
    /\ probe.f = "loaded"
    /\ DOMAIN probe.directory = { "a.ts" }
    /\ Len(probe.directory["a.ts"]) = 2
    /\ probe.directory["a.ts"][1].export_name = "f"
    /\ probe.directory["a.ts"][1].helper = "readFunction"
    /\ probe.directory["a.ts"][2].export_name = "f"
    /\ IsOk(probe.result)
    /\ KeySet(probe.result.value.functions) = { "a.f" }
    /\ MapGet(probe.result.value.functions, "a.f").kind = "mutation"


\* a value of the type of the definition: Optional permits null
RECURSIVE OfType(_, _)
OfType(definition, value) ==
    CASE definition.field_type = "optional" ->
           value.t = "null" \/ OfType(definition.inner, value)
      [] definition.field_type \in { "string", "id" } -> value.t = "str"
      [] definition.field_type = "number" -> value.t = "num"
      [] definition.field_type = "boolean" -> value.t = "bool"
      [] OTHER -> FALSE

\* the args hold a key the schema does not declare
UnknownKey(schema, args) == \E k \in KeySet(args) : ~MapHas(schema, k)

\* the args omit a declared arg that is not Optional
MissingArg(schema, args) ==
    \E i \in 1..Len(schema) : ~is_optional(schema[i][2]) /\ ~MapHas(args, schema[i][1])

\* the args give a value of the wrong type
WrongType(schema, args) ==
    \E i \in 1..Len(schema) :
       MapHas(args, schema[i][1]) /\ ~OfType(schema[i][2], MapGet(args, schema[i][1]))

InvalidArgs(schema, args) ==
    UnknownKey(schema, args) \/ MissingArg(schema, args) \/ WrongType(schema, args)

\* C20: a function call whose args hold a key the function's args schema
\* does not declare, omit a declared non-Optional arg or give a value of the
\* wrong type fails with a Validation error, executes no step and changes no
\* database state, and for a Mutation function no transaction is opened:
\* steps run and a transaction is opened only for args that are valid.
C20_ArgsFirst ==
    [][probe.f = "args" =>
         /\ (probe.pc = "idle" /\ (probe'.pc = "validated" \/ last'.op = "call")
               /\ InvalidArgs(ArgsManifest[probe'.endpoint].args, probe'.args))
              => /\ last'.op = "call" /\ last'.kind = "Validation"
                 /\ probe'.pc = "idle"
                 /\ probe'.executed = 0 /\ ~probe'.began
                 /\ db' = db
         /\ (probe'.pc = "validated" \/ probe'.executed > 0 \/ probe'.began)
              => ~InvalidArgs(ArgsManifest[probe'.endpoint].args, probe'.args)]_vars

\* a Mutation function called with a key it does not declare, the declared
\* args being right, returned the Validation error
C20_Witness ==
    /\ probe.f = "args" /\ probe.pc = "idle" /\ probe.endpoint = "m_named"
    /\ probe.args = << <<"name", JStr("x")>>, <<"ok", JBool(TRUE)>>, <<"title", JStr("x")>> >>
    /\ last.kind = "Validation" /\ last.msg = "unknown function arg"
    /\ ~probe.began /\ probe.executed = 0
    /\ schema_state.active_schema = "D2"

\* a Query function called without its required arg
C20_WitnessMissing ==
    /\ probe.f = "args" /\ probe.pc = "idle" /\ probe.endpoint = "q_named"
    /\ probe.args = << <<"note", JStr("x")>> >>
    /\ last.kind = "Validation" /\ last.msg = "missing required function arg"

\* a Query function called with a boolean for its Optional String arg
C20_WitnessType ==
    /\ probe.f = "args" /\ probe.pc = "idle" /\ probe.endpoint = "q_named"
    /\ probe.args = << <<"name", JStr("x")>>, <<"note", JBool(TRUE)>> >>
    /\ last.kind = "Validation" /\ last.msg = "arg must be a string"

\* with valid args the Mutation function ran its two steps in a transaction
C20_WitnessValid ==
    /\ probe.f = "args" /\ probe.pc = "idle" /\ probe.endpoint = "m_named"
    /\ probe.began /\ probe.executed = 2 /\ last.kind = "Ok"

(***************************************************************************)
(* C21: invalid schema documents.                                          *)
(***************************************************************************)
\* the fields of a document: <<table, field name, definition>>
FieldsOfDocument(schema) ==
    UNION { { <<schema.tables[i][1], schema.tables[i][2].fields[j][1],
                schema.tables[i][2].fields[j][2]>> :
                j \in 1..Len(schema.tables[i][2].fields) } :
            i \in 1..Len(schema.tables) }

\* a table name or a field name that is no identifier
BadTableName(schema) == \E t \in KeySet(schema.tables) : ~validate_table_name(t)
BadFieldName(schema) == \E f \in FieldsOfDocument(schema) : ~validate_table_name(f[2])

\* an Id field, optional or not, whose table is not in the document
AbsentTarget(schema) ==
    \E f \in FieldsOfDocument(schema) :
       \/ f[3].field_type = "id" /\ f[3].table \notin KeySet(schema.tables)
       \/ /\ f[3].field_type = "optional"
          /\ f[3].inner.field_type = "id"
          /\ f[3].inner.table \notin KeySet(schema.tables)

\* an Optional that does not wrap exactly one inner that is not Optional
OptionalWithoutInner(schema) ==
    \E f \in FieldsOfDocument(schema) :
       f[3].field_type = "optional" /\ f[3].inner = NoInner
OptionalInOptional(schema) ==
    \E f \in FieldsOfDocument(schema) :
       f[3].field_type = "optional" /\ f[3].inner.field_type = "optional"

\* a field_map or defaults key that names no field of the target
UnknownMigrationKey(schema) ==
    \E i \in 1..Len(schema.migrations) :
       LET target == schema.migrations[i][1]
           rule == schema.migrations[i][2]
       IN  /\ target \in KeySet(schema.tables)
           /\ \E k \in KeySet(rule.field_map) \cup KeySet(rule.defaults) :
                 k \notin KeySet(MapGet(schema.tables, target).fields)

\* a source table that migrates into two targets
TwoTargets(schema) ==
    \E i, j \in 1..Len(schema.migrations) :
       /\ i # j
       /\ schema.migrations[i][2].from # ""
       /\ schema.migrations[i][2].from = schema.migrations[j][2].from

\* a references b: a has an Id field of the other table b
RefersTo(schema) ==
    { <<f[1], unwrap_base(f[3]).table>> : f \in
        { g \in FieldsOfDocument(schema) :
            /\ unwrap_base(g[3]).field_type = "id"
            /\ unwrap_base(g[3]).table # g[1] } }

\* a foreign-key cycle through two or three tables
ForeignKeyCycle(schema) ==
    LET R == RefersTo(schema)
        T == KeySet(schema.tables)
    IN  \/ \E a, b \in T : <<a, b>> \in R /\ <<b, a>> \in R
        \/ \E a, b, c \in T : <<a, b>> \in R /\ <<b, c>> \in R /\ <<c, a>> \in R

\* the rules apply_schema's validation and ordering look at
ViolatesCheckedRule(schema) ==
    \/ BadTableName(schema)
    \/ AbsentTarget(schema)
    \/ OptionalWithoutInner(schema)
    \/ UnknownMigrationKey(schema)
    \/ TwoTargets(schema)
    \/ ForeignKeyCycle(schema)

ViolatesRule(schema) ==
    \/ ViolatesCheckedRule(schema)
    \/ BadFieldName(schema)
    \/ OptionalInOptional(schema)

\* the last step was an apply that failed with Validation and changed nothing
RejectedUnchanged ==
    /\ last'.kind = "Validation"
    /\ db' = db
    /\ schema_state' = schema_state
    /\ schema_meta' = schema_meta

\* C21: a document that violates one of the rules of a schema document (bad
\* table or field name, absent Id target, Optional without exactly one
\* non-Optional inner, unknown field_map/defaults key, one source into two
\* targets, foreign-key cycle) makes apply_schema fail with Validation before
\* any table is created or altered, before any row is copied and without
\* changing the active schema.
C21_InvalidRejected ==
    [][ (probe'.f = "applied" /\ last'.op = "apply" /\ ViolatesRule(Docs[probe'.d]))
        => RejectedUnchanged ]_vars

\* C21, for the rules that validate_schema_document and
\* resolve_table_apply_order check: those documents are rejected with
\* Validation and nothing changes.
C21_CheckedRejected ==
    [][ (probe'.f = "applied" /\ last'.op = "apply"
         /\ ViolatesCheckedRule(Docs[probe'.d]))
        => RejectedUnchanged ]_vars

\* a document with a field name that is no identifier was refused with
\* Validation after the table before it had been created
C21_CreatedBeforeRefusal ==
    /\ probe.f = "applied" /\ probe.d = "Bfield"
    /\ last.op = "apply" /\ last.kind = "Validation"
    /\ db["tasks"].exists /\ ~db["users"].exists
    /\ schema_state.active_schema = "none"

\* a document with a field name that is no identifier became the active schema
C21_InvalidActive ==
    /\ probe.f = "applied" /\ probe.d = "Bfield"
    /\ last.op = "apply" /\ last.kind = "Ok"
    /\ schema_state.active_schema = "Bfield"

\* each of the checked rules was refused on a database that holds tables
C21_Refused ==
    /\ probe.f = "applied" /\ probe.d = "Bcycle"
    /\ last.op = "apply" /\ last.kind = "Validation"
    /\ db["users"].rows # {}

(***************************************************************************)
(* C22: tables a later document leaves out.                                *)
(***************************************************************************)
\* the tables of the active schema
ActiveTables(state) == KeySet(get_active_schema(state).tables)

\* the step applied a document with success while another was active
AppliedOver == probe'.f = "applied" /\ last'.op = "apply" /\ last'.kind = "Ok"

\* table T was managed by an earlier document and is not in the active one
LeftOut(T) ==
    /\ schema_state.active_schema # "none"
    /\ T \notin ActiveTables(schema_state)
    /\ schema_meta[T].present

\* C22: when apply_schema(S2) follows apply_schema(S1) and table T is in S1
\* but not in S2, T's _schema_meta row has managed = false, T's physical
\* table and rows are as before, and insert, update, delete, move and query
\* on T fail because T is not in the active schema.
C22_RemovedUnmanaged ==
    [][ /\ AppliedOver =>
           \A T \in ActiveTables(schema_state) \ ActiveTables(schema_state') :
              /\ schema_meta'[T].present
              /\ ~schema_meta'[T].managed
              /\ db'[T] = db[T]
        /\ \A T \in TableNames :
             (probe'.f = "request" /\ T \in probe'.tables /\ LeftOut(T)) =>
                /\ last'.kind # "Ok"
                /\ db' = db
                /\ ~schema_meta[T].managed
                /\ probe'.well_formed => last'.kind = "NotFound" ]_vars

\* D1 was applied over D2: done holds a row and is unmanaged
C22_Witness ==
    /\ probe.f = "applied" /\ probe.d = "D1"
    /\ last.op = "apply" /\ last.kind = "Ok"
    /\ db["done"].rows # {}
    /\ schema_meta["done"].present /\ ~schema_meta["done"].managed

\* D4 was applied over D2 and copied the rows of tasks, which stay
C22_WitnessSource ==
    /\ probe.f = "applied" /\ probe.d = "D4"
    /\ last.op = "apply" /\ last.kind = "Ok"
    /\ db["tasks"].rows # {} /\ db["done"].rows # {}
    /\ ~schema_meta["tasks"].managed

\* a request on the table that was left out was refused
C22_WitnessRefused ==
    /\ probe.f = "request" /\ probe.op = "move" /\ "done" \in probe.tables
    /\ schema_state.active_schema = "D1"
    /\ db["done"].rows # {}
    /\ last.kind = "NotFound"

(***************************************************************************)
(* C23: the order tables are applied in.                                   *)
(***************************************************************************)
\* the tables other tables can be reached from, over any number of Id fields
RECURSIVE ReachedFrom(_, _)
ReachedFrom(R, S) ==
    LET more == S \cup { p[2] : p \in { q \in R : q[1] \in S } }
    IN  IF more = S THEN S ELSE ReachedFrom(R, more)

\* some table reaches itself over Id fields of other tables
CycleThroughTables(schema) ==
    LET R == RefersTo(schema) IN
    \E p \in R : p[1] \in ReachedFrom(R, {p[2]})

\* position of table t in the order
PlaceOf(order, t) == CHOOSE i \in 1..Len(order) : order[i] = t

\* C23: the apply order is a permutation of the document's tables in which,
\* for every Id field of table A that references another table B, B comes
\* before A; a cycle through two or more tables is a Validation error; a
\* table that references itself is accepted.
C23_ApplyOrder ==
    (probe.f = "order" /\ probe.pc = "resolved") =>
       LET schema == probe.schema
           order == probe.result.value
       IN  IF CycleThroughTables(schema)
             THEN /\ probe.result.kind = "Validation"
                  /\ probe.result.msg = "cyclic foreign-key dependency"
             ELSE /\ IsOk(probe.result)
                  /\ Len(order) = Len(schema.tables)
                  /\ Range(order) = KeySet(schema.tables)
                  /\ \A p \in RefersTo(schema) :
                        PlaceOf(order, p[2]) < PlaceOf(order, p[1])

\* done refers to itself and to users, tasks to done: the order is users,
\* done, tasks
C23_Witness ==
    /\ probe.f = "order" /\ probe.pc = "resolved"
    /\ RefersTo(probe.schema) = { <<"done", "users">>, <<"tasks", "done">> }
    /\ \E f \in FieldsOfDocument(probe.schema) :
          f[1] = "done" /\ unwrap_base(f[3]).table = "done"
    /\ probe.result = Ok(<<"users", "done", "tasks">>)

\* three tables in a ring are refused
C23_WitnessCycle ==
    /\ probe.f = "order" /\ probe.pc = "resolved"
    /\ RefersTo(probe.schema) =
          { <<"done", "tasks">>, <<"tasks", "users">>, <<"users", "done">> }
    /\ probe.result.kind = "Validation"

(***************************************************************************)
(* C24: what the step loop returns and binds.                              *)
(***************************************************************************)
StepsOf(endpoint) == ReturnManifest[endpoint].steps
HasReturn(steps) == \E i \in 1..Len(steps) : steps[i].op = "return"
FirstReturn(steps) ==
    CHOOSE i \in 1..Len(steps) :
       steps[i].op = "return" /\ \A j \in 1..(i - 1) : steps[j].op # "return"

\* the turn of the loop that ran one more step with success
StepTaken ==
    /\ probe.f = "loop" /\ probe.pc = "steps"
    /\ probe'.f = "loop" /\ probe'.pc \in {"steps", "return"}
    /\ probe'.run.executed = probe.run.executed + 1

\* the step that turn ran
TakenStep == StepsOf(probe.endpoint)[probe'.run.executed]

\* a step with `into` binds its result before the next step runs
IntoBinds ==
    TakenStep.into # "" =>
       /\ MapHas(probe'.run.context.vars, TakenStep.into)
       /\ MapGet(probe'.run.context.vars, TakenStep.into) = probe'.run.last_result

\* a step without `into` binds nothing
WithoutIntoBindsNothing ==
    TakenStep.into = "" => probe'.run.context.vars = probe.run.context.vars

\* a step without `into` binds nothing, but for setVar, which binds its name
WithoutIntoBindsName ==
    TakenStep.into = "" =>
       probe'.run.context.vars =
          IF TakenStep.op = "setVar"
            THEN MapPut(probe.run.context.vars, MapGet(TakenStep.payload, "name").v,
                        probe'.run.last_result)
            ELSE probe.run.context.vars

\* a return step ends the loop with its evaluated value; any other step but
\* the last goes on
ReturnEnds ==
    /\ TakenStep.op = "return" =>
          /\ probe'.pc = "return"
          /\ probe'.run.last_result =
                evaluate_expression(MapGet(TakenStep.payload, "value"),
                                    probe.run.context.args,
                                    probe.run.context.vars).value
    /\ (TakenStep.op # "return" /\ probe'.run.executed < Len(StepsOf(probe.endpoint)))
          => probe'.pc = "steps"

\* how many of the first k steps are insert steps
InsertsAmong(steps, k) == Cardinality({ i \in 1..k : steps[i].op = "insert" })

\* the call handed back the value of its first return step, or of its last
\* step when it has none, and ran no step after that one
HandsBack ==
    (probe.f = "loop" /\ probe.pc = "return" /\ probe'.f = "loop" /\ probe'.pc = "idle") =>
       LET steps == StepsOf(probe.endpoint)
           k == probe.run.executed
       IN  /\ last'.kind = "Ok"
           /\ probe'.result = <<probe.run.last_result>>
           /\ k = IF HasReturn(steps) THEN FirstReturn(steps) ELSE Len(steps)
           /\ Cardinality(probe.run.inserted) = InsertsAmong(steps, k)
           /\ TotalRows(db') = TotalRows(db)
                 + (IF ReturnManifest[probe.endpoint].kind = "mutation"
                      THEN InsertsAmong(steps, k) ELSE 0)

\* C24 as stated: the loop stops at the first return step, runs no later
\* step and hands back that step's evaluated value; without a return step it
\* hands back the result of the last step; a step with `into` binds its
\* result before the next step, and a step without `into` binds nothing.
C24_AsStated ==
    [][ /\ StepTaken => IntoBinds /\ WithoutIntoBindsNothing /\ ReturnEnds
        /\ HandsBack ]_vars

\* C24, amended: as above, but a setVar step binds its name whether or not
\* it has `into`; every other step without `into` binds nothing.
C24_ReturnSemantics ==
    [][ /\ StepTaken => IntoBinds /\ WithoutIntoBindsName /\ ReturnEnds
        /\ HandsBack ]_vars

\* a Mutation returned the id of the row its first step inserted; the insert
\* after the return step did not run
C24_Witness ==
    /\ probe.f = "loop" /\ probe.pc = "idle" /\ probe.endpoint = "m_return_mid"
    /\ last.op = "call" /\ last.kind = "Ok"
    /\ probe.run.executed = 2
    /\ probe.result = << JStr(CHOOSE i \in RowIds : <<"users", i>> \in probe.run.inserted) >>
    /\ Cardinality(probe.run.inserted) = 1

\* a Query without return step handed back the row of its last step
C24_WitnessNoReturn ==
    /\ probe.f = "loop" /\ probe.pc = "idle" /\ probe.endpoint = "q_no_return"
    /\ last.op = "call" /\ last.kind = "Ok"
    /\ probe.result # <<>> /\ probe.result[1].t = "obj"

\* a setVar step without `into` bound its name
C24_WitnessSetVar ==
    /\ probe.f = "loop" /\ probe.pc = "idle" /\ probe.endpoint = "q_set"
    /\ probe.result = << JStr("x") >>
    /\ probe.run.context.vars = << <<"t", JStr("x")>> >>

(***************************************************************************)
(* C25: which columns accept NULL.                                         *)
(***************************************************************************)
\* the column of field name of table T
ColumnOf(D, T, name) == CHOOSE c \in D[T].cols : c.name = name

\* the declared fields of the active schema that have a column:
\* <<table, field name, definition>>
ManagedFields ==
    { f \in FieldsOfDocument(get_active_schema(schema_state)) :
        /\ f[1] \in TableNames
        /\ db[f[1]].exists
        /\ f[2] \in ColNames(db, f[1]) }

\* C25: for every declared field of a managed table the column accepts NULL
\* if and only if the field is Optional, whether the column was created by
\* CREATE TABLE or added by ALTER TABLE ADD COLUMN; so after apply_schema
\* adds an Optional field to an existing table, an insert that omits the
\* field succeeds and stores null.
C25_NullableIffOptional ==
    /\ \A f \in ManagedFields :
          ColumnOf(db, f[1], f[2]).nullable <=> is_optional(f[3])
    /\ (/\ probe.f = "request" /\ probe.op = "insert" /\ probe.tables = {"users"}
        /\ schema_state.active_schema = "D5"
        /\ last.op = "insert")
          => last.kind = "Ok"

\* C25, for the columns that come with CREATE TABLE: a table the apply
\* created has a column that accepts NULL exactly for its Optional fields,
\* while every column the apply added to a table that was there accepts no
\* NULL.
C25_CreatedNullable ==
    [][ (probe'.f = "applied" /\ last'.op = "apply" /\ last'.kind = "Ok") =>
          \A f \in FieldsOfDocument(Docs[probe'.d]) :
             /\ (~db[f[1]].exists) =>
                   (ColumnOf(db', f[1], f[2]).nullable <=> is_optional(f[3]))
             /\ (db[f[1]].exists /\ f[2] \notin ColNames(db, f[1])) =>
                   ~ColumnOf(db', f[1], f[2]).nullable ]_vars

\* D5 added the optional field note to users; the insert that omits it was
\* refused by MySQL
C25_OmittedRefused ==
    /\ probe.f = "request" /\ probe.op = "insert" /\ probe.tables = {"users"}
    /\ schema_state.active_schema = "D5"
    /\ is_optional(MapGet(MapGet(Docs["D5"].tables, "users").fields, "note"))
    /\ ~ColumnOf(db, "users", "note").nullable
    /\ last.op = "insert" /\ last.kind = "Database"
    /\ last.msg = "column cannot be null"

\* D5 created users with the optional field; the insert that omits it
\* stored NULL
C25_OmittedStored ==
    /\ probe.f = "request" /\ probe.op = "insert" /\ probe.tables = {"users"}
    /\ schema_state.active_schema = "D5"
    /\ ColumnOf(db, "users", "note").nullable
    /\ last.op = "insert" /\ last.kind = "Ok"
    /\ \E r \in db["users"].rows : r["note"] = Null

(***************************************************************************)
(* C26: applying the active schema again.                                  *)
(***************************************************************************)
\* the step applied a document whose signature is the active one
Reapplied ==
    /\ probe'.f = "applied" /\ last'.op = "apply"
    /\ schema_state.active_schema # "none"
    /\ DocSignature[probe'.d] = schema_state.active_schema_signature

\* the apply succeeded and nothing is different
NoOp ==
    /\ last'.kind = "Ok"
    /\ db' = db
    /\ schema_state' = schema_state
    /\ schema_meta' = schema_meta

\* some rule of the document names a source table that holds rows
SourceHoldsRows(d) ==
    \E i \in 1..Len(Docs[d].migrations) :
       LET from == Docs[d].migrations[i][2].from
       IN  from \in TableNames /\ db[from].rows # {}

\* C26: apply_schema with a document whose signature equals the active one
\* succeeds and leaves rows, columns, indexes and the active schema as they
\* are, for documents without migration rules and for documents with a rule
\* whose source table holds rows.
C26_ReapplyNoOp == [][ Reapplied => NoOp ]_vars

\* C26, without the rows to migrate: the same for documents without rules
\* and for rules whose source table is empty.
C26_ReapplyWithoutRows == [][ (Reapplied /\ ~SourceHoldsRows(probe'.d)) => NoOp ]_vars

\* D3 was active, tasks held a row that the first apply had copied into
\* done, and the second apply of D3 failed on the copy
C26_ReapplyRefused ==
    /\ probe.f = "applied" /\ probe.d = "D3"
    /\ schema_state.active_schema = "D3"
    /\ last.op = "apply" /\ last.kind = "Database"
    /\ last.msg = "duplicate primary key"
    /\ RowIdsOf(db, "tasks") # {}
    /\ RowIdsOf(db, "tasks") \subseteq RowIdsOf(db, "done")

\* D2 was applied again over its rows and changed nothing
C26_ReappliedOverRows ==
    /\ probe.f = "applied" /\ probe.d = "D2"
    /\ schema_state.active_schema = "D2"
    /\ last.op = "apply" /\ last.kind = "Ok"
    /\ db["tasks"].rows # {} /\ db["users"].rows # {}

(***************************************************************************)
(* C27: the shape of a vector query result.                                *)
(***************************************************************************)
\* the query was answered with a result
Answered == probe.f = "query" /\ probe.pc = "answered" /\ IsOk(probe.result)

\* the items of the named collection whose dimension is that of query q
MatchingItems(q) ==
    { it \in probe.store.vector_items :
        /\ \E c \in probe.store.collections :
              c.name = probe.collection /\ c.id = it.collection_id
        /\ Len(it.vector) = Len(probe.request[q]) }

\* the stored item entry i of query q names
ListedItem(q, i) ==
    CHOOSE it \in probe.store.vector_items : it.id = probe.result.value.ids[q][i]

\* a >= b for two f64
AtLeast(a, b) == partial_cmp(a, b) \in {"Greater", "Equal"}

\* one entry per query vector; per query the four arrays have the length
\* min(max(1, n_results), matching items), and position i of each describes
\* the same matching item
ResultShape ==
    LET r == probe.result.value
        n == Len(probe.request)
        wanted == IF probe.n_results > 1 THEN probe.n_results ELSE 1
    IN  /\ Len(r.ids) = n /\ Len(r.documents) = n
        /\ Len(r.metadatas) = n /\ Len(r.distances) = n
        /\ \A q \in 1..n :
              LET size == Min(wanted, Cardinality(MatchingItems(q))) IN
              /\ Len(r.ids[q]) = size /\ Len(r.documents[q]) = size
              /\ Len(r.metadatas[q]) = size /\ Len(r.distances[q]) = size
              /\ \A i \in 1..size :
                    /\ r.ids[q][i] \in { it.id : it \in MatchingItems(q) }
                    /\ \A j \in 1..size : r.ids[q][i] = r.ids[q][j] => i = j
                    /\ r.documents[q][i] = ListedItem(q, i).document
                    /\ r.metadatas[q][i] = ListedItem(q, i).metadata
                    /\ r.distances[q][i] =
                          distance(cosine_similarity(probe.request[q],
                                                     ListedItem(q, i).vector,
                                                     ListedItem(q, i).norm_squared))

\* the entries of query q come by non-increasing similarity
OrderedBySimilarity(q) ==
    LET d == probe.result.value.distances[q] IN
    \A i, j \in 1..Len(d) : i < j => AtLeast(d[i].one_minus, d[j].one_minus)

\* every component of query q is a finite number
FiniteQuery(q) == \A i \in 1..Len(probe.request[q]) : probe.request[q][i].k = "fin"

\* C27 as stated: per query vector the result holds only items of the
\* collection whose dimension equals the query length, ordered by
\* non-increasing cosine similarity, min(max(1, n_results), count) of them;
\* ids, documents, metadatas and distances have one entry per query vector,
\* the same length per query, and position i describes the same item.
C27_AsStated ==
    Answered => /\ ResultShape
                /\ \A q \in 1..Len(probe.request) : OrderedBySimilarity(q)

\* C27, amended: the shape holds for every query; the order by
\* non-increasing similarity holds for every query vector whose components
\* are finite.
C27_ResultShape ==
    Answered => /\ ResultShape
                /\ \A q \in 1..Len(probe.request) : FiniteQuery(q) => OrderedBySimilarity(q)

\* three items match, the two most similar are listed, the nearer first,
\* and the first is not the first by id
C27_Witness ==
    /\ Answered
    /\ probe.request = << <<Fin(1), Fin(1)>> >>
    /\ Cardinality(MatchingItems(1)) = 3
    /\ probe.n_results = 2
    /\ Len(probe.result.value.ids[1]) = 2
    /\ probe.result.value.ids[1][1] = "i3"
    /\ partial_cmp(probe.result.value.distances[1][1].one_minus,
                   probe.result.value.distances[1][2].one_minus) = "Greater"

\* a query with an infinite component lists two items at distance NaN
C27_WitnessNaN ==
    /\ Answered
    /\ probe.request = << <<Infinite, Fin(0)>> >>
    /\ Len(probe.result.value.distances[1]) = 2
    /\ \A i \in 1..2 : probe.result.value.distances[1][i].one_minus.k = "nan"

\* n_results = 0 gave one entry
C27_WitnessAtLeastOne ==
    /\ Answered
    /\ probe.n_results = 0
    /\ Len(probe.result.value.ids) = 2
    /\ Len(probe.result.value.ids[2]) = 1

(***************************************************************************)
(* C28: the stored signature is that of the stored schema.                 *)
(***************************************************************************)
\* both rows of _schema_state exist
BothRows ==
    /\ schema_state.active_schema # "none"
    /\ schema_state.active_schema_signature # <<>>

\* C28: in every reachable state under any interleaving of apply_schema
\* calls (one after the other, two at once, or one that stops between its
\* two writes), whenever both _schema_state rows exist, the stored
\* active_schema_signature is the schema_signature of the stored
\* active_schema.
C28_SignatureOfActive ==
    BothRows => schema_state.active_schema_signature
                   = DocSignature[schema_state.active_schema]

\* C28, for calls that do not overlap and are not stopped: when a call
\* returns Ok while the other call is not between its two writes and was
\* not stopped there, the stored signature is that of the stored schema.
C28_AfterReturn ==
    [][ \A m \in Appliers :
          (/\ probe.call[m].pc = "signature" /\ probe'.call[m].pc = "returned"
           /\ schema_state.active_schema = probe.call[m].d)
            => C28_SignatureOfActive' ]_vars

\* both calls returned Ok, none was stopped, and the stored signature is
\* not that of the stored schema
C28_BothReturned ==
    /\ \A m \in Appliers : probe.call[m].pc = "returned"
    /\ last.op = "apply" /\ last.kind = "Ok"
    /\ BothRows
    /\ schema_state.active_schema = "D2"
    /\ schema_state.active_schema_signature = DocSignature["D1"]

\* one call was stopped between its two writes
C28_StoppedBetween ==
    /\ probe.call[1].pc = "stopped" /\ probe.call[2].pc = "idle"
    /\ schema_state.active_schema = "D2"
    /\ schema_state.active_schema_signature = DocSignature["D1"]

(***************************************************************************)
(* C29: concurrent moves of one row to different tables.                   *)
(***************************************************************************)
\* the tables of the committed data that hold a row with this _id
TablesHolding(id) == { t \in TableNames : id \in RowIdsOf(db, t) }

\* the two calls selected the row with this _id and name different targets
SelectedByBoth(id) ==
    /\ \A m \in Movers : \E i \in 1..Len(probe.tx[m].selected) :
          MapGet(probe.tx[m].selected[i].v, "_id") = JStr(id)
    /\ probe.tx[1].options.to_table # probe.tx[2].options.to_table

\* C29: after any interleaving of concurrent move_rows calls that select
\* the same source row and move it to different target tables, the row's
\* _id exists in at most one table among the source and those targets, and
\* the number of rows carrying that _id over these tables is the same as
\* before the calls (one).
C29_NeverDuplicated ==
    \A id \in { "r2", "r3" } :
       SelectedByBoth(id) => Cardinality(TablesHolding(id)) = 1

\* C29, the part that holds: a row two calls selected is never lost, it is
\* in the source or in a target at every moment
C29_NeverLost ==
    \A id \in { "r2", "r3" } :
       SelectedByBoth(id) => TablesHolding(id) # {}

\* C29, the part that holds: the number of tables holding the row changes
\* only with a commit
C29_OnlyCommitMoves ==
    [][ (\E id \in { "r2", "r3" } : TablesHolding(id)' # TablesHolding(id))
          => \E m \in Movers : probe.tx[m].pc = "commit" /\ probe'.tx[m].pc = "committed"
       ]_vars

\* both calls committed and returned 1, and the task r2 is a row of done and
\* a row of users
C29_Duplicated ==
    /\ \A m \in Movers : probe.tx[m].pc = "committed" /\ probe.tx[m].moved = 1
    /\ SelectedByBoth("r2")
    /\ TablesHolding("r2") = { "done", "users" }

\* the second call waited for the DELETE of the first
C29_WaitedForDelete ==
    /\ probe.tx[1].pc = "commit" /\ probe.tx[2].pc = "delete"
    /\ SelectedByBoth("r2")
    /\ delete_waits(probe.tx, 2, "r2")
    /\ probe.tx[2].ins # {}

(***************************************************************************)
(* C30: references and string literals of compiled functions.              *)
(***************************************************************************)
\* the names of the variables the strings of a payload value refer to
RECURSIVE ReferencedIn(_)
ReferencedIn(value) ==
    CASE value.t = "str" ->
           LET var_path == strip_prefix(Chars(value.v), <<"$", "v", "a", "r", ".">>) IN
           IF var_path.some THEN { NameOf(split_dot(var_path.rest)[1]) } ELSE {}
      [] value.t = "arr" -> UNION { ReferencedIn(value.v[i]) : i \in 1..Len(value.v) }
      [] value.t = "obj" -> UNION { ReferencedIn(value.v[i][2]) : i \in 1..Len(value.v) }
      [] OTHER -> {}

\* the names the steps before step i bind, through into or setVar
BoundBefore(steps, i) ==
    { steps[j].into : j \in { k \in 1..(i - 1) : steps[k].into # "" } }
      \cup { MapGet(steps[j].payload, "name").v :
               j \in { k \in 1..(i - 1) : steps[k].op = "setVar" } }

\* the payload values of a step the interpreter evaluates
EvaluatedOf(step) ==
    { step.payload[k][2] : k \in { n \in 1..Len(step.payload) :
                                     ~(step.op = "setVar" /\ step.payload[n][1] = "name") } }

\* every reference of the steps names a variable an earlier step binds
ReferencesBound(steps) ==
    \A i \in 1..Len(steps) : \A value \in EvaluatedOf(steps[i]) :
       ReferencedIn(value) \subseteq BoundBefore(steps, i)

\* the texts of the string literals of a body
LiteralsOf(body) ==
    { NameOf(parse_string_literal(Chars(body[i][Len(body[i])])).text) :
        i \in { k \in 1..Len(body) :
                  /\ body[k][Len(body[k])] \in DOMAIN Spelling
                  /\ parse_string_literal(Chars(body[k][Len(body[k])])).some } }

\* the literal evaluates to itself whatever the variables hold
EvaluatesToItself(text) ==
    \A bound \in { <<>>, << <<"t", JStr("x")>> >> } :
       evaluate_expression(JStr(text), LiteralArgs, bound) = Ok(JStr(text))

\* the interpreter reads the text as a reference
SpelledAsReference(text) ==
    \/ text = "$arg"
    \/ strip_prefix(Chars(text), Chars("$arg") \o <<".">>).some
    \/ strip_prefix(Chars(text), <<"$", "v", "a", "r", ".">>).some

UnknownVariable(res) ==
    /\ res.kind = "Validation"
    /\ res.msg = "function expression references unknown variable"

\* C30: for every function the compiler produces, each string of a step
\* payload that the interpreter treats as a reference names a variable
\* bound by an earlier step of the same function, every string literal of
\* the handler source evaluates to that same literal string, and executing
\* the function never fails with "references unknown variable".
C30_AsStated ==
    (probe.f = "literal" /\ probe.pc \in { "compiled", "ran" })
      => /\ ReferencesBound(probe.result.value)
         /\ \A text \in LiteralsOf(probe.body) : EvaluatesToItself(text)
         /\ probe.pc = "ran" => ~UnknownVariable(probe.out)

\* C30, for the handlers none of whose string literals is spelled as a
\* reference ($arg, $arg.<path>, $var.<name>): the references of the
\* compiled steps are bound by earlier steps, the literals evaluate to
\* themselves, and the call does not fail with "references unknown
\* variable".
C30_PlainLiterals ==
    (/\ probe.f = "literal" /\ probe.pc \in { "compiled", "ran" }
     /\ \A text \in LiteralsOf(probe.body) : ~SpelledAsReference(text))
      => /\ ReferencesBound(probe.result.value)
         /\ \A text \in LiteralsOf(probe.body) : EvaluatesToItself(text)
         /\ probe.pc = "ran" => ~UnknownVariable(probe.out)

\* a handler with a plain literal and a reference to a declared variable
\* ran and returned the literal
C30_Witness ==
    /\ probe.f = "literal" /\ probe.pc = "ran"
    /\ probe.body = << << "const", "t", "=", "'ok'" >>, << "let", "u", "=", "t" >>,
                       << "return", "u" >> >>
    /\ probe.out = Ok(JStr("ok"))

\* the literal '$var.nope' made the call fail
C30_WitnessUnknown ==
    /\ probe.f = "literal" /\ probe.pc = "ran"
    /\ probe.body = << << "const", "t", "=", "'$var.nope'" >> >>
    /\ UnknownVariable(probe.out)

\* the literal '$arg.name' came back as the value of the argument
C30_WitnessArg ==
    /\ probe.f = "literal" /\ probe.pc = "ran"
    /\ probe.body = << << "return", "'$arg.name'" >> >>
    /\ probe.out = Ok(JStr("x"))

\* the compiler refused a name that no earlier statement declared
C30_WitnessRefused ==
    /\ probe.f = "literal" /\ probe.pc = "refused"
    /\ probe.body = << << "return", "nope" >> >>

====
